---- MODULE Spec2Model ----
(***************************************************************************)
(* Conversation store, identity resolution and chat endpoints of the       *)
(* agent-memory backend (backend/app/db.py, main.py, chat_routes.py,       *)
(* services/session_service.py).                                           *)
(*                                                                         *)
(* Every database statement is one atomic step (asyncpg autocommit); a     *)
(* request handler is a process whose program counter moves from one       *)
(* await to the next, so two requests interleave between statements.       *)
(***************************************************************************)
EXTENDS Integers, Sequences, FiniteSets, TLC

VARIABLES
    users,          \* rows of table users: [id, username, provider_id]
    conversations,  \* rows of table conversations
    messages,       \* rows of table messages: [id, conversation_id, message_list]
    msg_seq,        \* the SERIAL sequence behind messages.id
    sessions,       \* Redis: the records under the keys session:{id}, by session id
    session_service,\* the SessionService: _use_redis, _redis (the client is cached), _memory_store
    redis_up,       \* whether the Redis server answers
    issued,         \* history: the session ids issued so far, each with the user it was issued to
    now,            \* the wall clock (NOW(), datetime.utcnow()), in seconds
    ticks,          \* how many times the clock has advanced
    req,            \* the HTTP requests being served, one record per slot
    origOwner,      \* history: who created a conversation, until an ownership transfer touches it
    appendLog       \* history: the batches appended to each conversation, in execution order

vars == <<users, conversations, messages, msg_seq, sessions, session_service, redis_up,
          issued, now, ticks, req, origOwner, appendLog>>

-----------------------------------------------------------------------------
(* Bounds *)

MaxTicks == 1       \* how many times the clock advances
MaxBatches == 2     \* how many message batches the store holds
MaxCalls == 4       \* how many calls the session service takes

(* Program constants *)

NamePrefixLen == 8          \* user_id.split('_')[-1][:8]
ExpiresInDays == 7          \* create_session(user_data, expires_in_days=7)
SecondsPerDay == 86400      \* expires_in_days * 24 * 60 * 60
DefaultLimit == 50          \* get_user_conversations(user_id, limit=50)

-----------------------------------------------------------------------------
(* Values *)

None == <<"None">>
Null == <<>>                \* SQL NULL in a text column

\* Anonymous ids "anon_<uuid4>". a1 and a2 differ only after the eighth
\* character of the uuid; b1 differs within the first eight.
a1 == <<"a","n","o","n","_","0","0","0","0","0","0","0","0","-","1">>
a2 == <<"a","n","o","n","_","0","0","0","0","0","0","0","0","-","2">>
b1 == <<"a","n","o","n","_","1","1","1","1","1","1","1","1","-","1">>
AnonIds == {a1, a2, b1}

\* Provider ids of users who log in with an OAuth provider.
g1 == <<"g","1">>
AuthIds == {g1}

UserIds == AnonIds \cup AuthIds
SessionIds == {"s1"}
ConvIds == {"c1", "c2"}
Prompts == {"p1", "p2", "p3"}
ModelTexts == {"m1"}
Reqs == {1, 2}

-----------------------------------------------------------------------------
(* Strings as sequences of characters *)

\* s[i..j], clipped to the string (Python slicing).
Slice(s, i, j) == [k \in 1..(IF j > Len(s) THEN Len(s) ELSE j) - i + 1 |-> s[i + k - 1]]

\* Position of the last '_' in s, 0 when there is none.
LastSep(s) ==
    LET ps == {i \in 1..Len(s) : s[i] = "_"}
    IN  IF ps = {} THEN 0 ELSE CHOOSE i \in ps : \A j \in ps : j <= i

\* main.py: f"Anonymous-{user_id.split('_')[-1][:8]}"
AnonymousUsername(user_id) ==
    LET last == Slice(user_id, LastSep(user_id) + 1, Len(user_id))
    IN  <<"Anonymous-">> \o Slice(last, 1, NamePrefixLen)

-----------------------------------------------------------------------------
(* pydantic_ai messages and the browser's chat lines *)

UserPromptPart(content) == [part_kind |-> "user-prompt", content |-> content]
TextPart(content) == [part_kind |-> "text", content |-> content]
ModelRequest(parts) == [kind |-> "request", parts |-> parts]
ModelResponse(parts) == [kind |-> "response", parts |-> parts]

\* result.new_messages_json(): the user's turn and the model's turn. The
\* content of the user's part is the user_prompt run_stream was given, a list.
NewMessages(user_prompt, text) ==
    << ModelRequest(<<UserPromptPart(user_prompt)>>), ModelResponse(<<TextPart(text)>>) >>

\* The first part of m of the given kind as a chat line: <<line>>, or <<>>
\* when m has no such part (the function's None).
FirstPart(m, part_kind, role) ==
    LET ps == {i \in 1..Len(m.parts) : m.parts[i].part_kind = part_kind}
    IN  IF ps = {} THEN <<>>
        ELSE << [role |-> role,
                 content |-> m.parts[CHOOSE i \in ps : \A j \in ps : i <= j].content] >>

to_chat_message(m) ==
    IF m.kind = "request" THEN FirstPart(m, "user-prompt", "user")
    ELSE FirstPart(m, "text", "model")

\* get_chat: [chat_msg for m in msgs if (chat_msg := to_chat_message(m)) is not None]
RECURSIVE ChatLines(_)
ChatLines(msgs) ==
    IF msgs = <<>> THEN <<>>
    ELSE to_chat_message(Head(msgs)) \o ChatLines(Tail(msgs))

-----------------------------------------------------------------------------
(* The attachments form field of POST /chat/{id} *)

\* Texts are sequences of tokens, so that the tests the code makes on them
\* (a scheme, a prefix "image/", a lower-casing) are computed. A JSON scalar
\* is its type and its text.
JsonStr(text) == [type |-> "str", text |-> text]
JsonInt(text) == [type |-> "int", text |-> text]

\* A JSON value inside the list: a dict with some of the keys url, file_type
\* and friendly_name (<<>>: the key is absent), or a value that is no dict.
Dict(url, file_type, friendly_name) ==
    [type |-> "dict", url |-> url, file_type |-> file_type, friendly_name |-> friendly_name]
NoDict == [type |-> "str", url |-> <<>>, file_type |-> <<>>, friendly_name |-> <<>>]

\* The form field: not sent (None), the empty string, a text that is no JSON,
\* a JSON text nested deeper than the interpreter's recursion limit, or the
\* JSON text of a value of some type (a list has items).
Field(text, type, items) == [text |-> text, type |-> type, items |-> items]
NoAttachments == Field("none", "null", <<>>)

\* json.loads(attachments): the value, or the exception raised.
\* JSONDecodeError for a text that is no JSON; RecursionError (which is no
\* JSONDecodeError) for arrays or objects nested too deep.
json_loads(attachments) ==
    [raised |-> IF attachments.text = "invalid" THEN "JSONDecodeError"
                ELSE IF attachments.text = "deep" THEN "RecursionError"
                ELSE "",
     value |-> [type |-> attachments.type, items |-> attachments.items]]

\* str.lower() on the tokens in use.
Lower(token) ==
    CASE token = "IMAGE" -> "image"
      [] token = "PNG" -> "png"
      [] token = "HTTPS" -> "https"
      [] OTHER -> token

lower(text) == [i \in 1..Len(text) |-> Lower(text[i])]

\* text.startswith(prefix)
startswith(text, prefix) ==
    Len(text) >= Len(prefix) /\ \A i \in 1..Len(prefix) : text[i] = prefix[i]

\* pydantic's HttpUrl: a string with scheme http or https and a host; str()
\* of it has the scheme in lower case and the path "/" when the text had none.
IsHttpUrl(v) ==
    /\ v.type = "str"
    /\ Len(v.text) >= 3
    /\ Lower(v.text[1]) \in {"http", "https"} /\ v.text[2] = "://"

HttpUrl(text) ==
    <<Lower(text[1]), "://", text[3]>> \o (IF Len(text) = 3 THEN <<"/">> ELSE SubSeq(text, 4, Len(text)))

\* A variant of the model that takes any string for a URL.
Attachment_any_url(url, file_type, friendly_name) ==
    IF url.type = "str" /\ Len(url.text) >= 3 /\ file_type.type = "str" /\ friendly_name.type = "str"
    THEN << [url |-> HttpUrl(url.text), file_type |-> file_type.text,
             friendly_name |-> friendly_name.text] >>
    ELSE <<>>

\* Attachment(url=..., file_type=..., friendly_name=...): <<the object>>, or
\* <<>> when the validation raises (url: HttpUrl, file_type: str,
\* friendly_name: str).
Attachment(url, file_type, friendly_name) ==
    IF IsHttpUrl(url) /\ file_type.type = "str" /\ friendly_name.type = "str"
    THEN << [url |-> HttpUrl(url.text), file_type |-> file_type.text,
             friendly_name |-> friendly_name.text] >>
    ELSE <<>>

\* for item in attachment_data: the items that validate, in their order; an
\* item that is no dict, lacks a key or does not validate is passed over
\* (except Exception).
RECURSIVE ValidateItems(_)
ValidateItems(attachment_data) ==
    IF attachment_data = <<>> THEN <<>>
    ELSE LET item == Head(attachment_data)
         IN  (IF item.type = "dict" /\ item.url # <<>> /\ item.file_type # <<>>
                    /\ item.friendly_name # <<>>
              THEN Attachment(item.url[1], item.file_type[1], item.friendly_name[1])
              ELSE <<>>)
             \o ValidateItems(Tail(attachment_data))

\* post_chat, "Parse and validate attachments if provided": the list
\* validated_attachments, or the exception that leaves the handler
\* (only json.JSONDecodeError is caught around json.loads).
validated_attachments(attachments) ==
    LET Parsed_(loaded) ==
            IF loaded.raised = "JSONDecodeError"
            THEN [raised |-> "", validated |-> <<>>]
            ELSE IF loaded.raised # ""
            THEN [raised |-> loaded.raised, validated |-> <<>>]
            ELSE [raised |-> "",
                  validated |-> IF loaded.value.type = "list"
                                THEN ValidateItems(loaded.value.items) ELSE <<>>]
    IN  IF attachments.text \in {"none", "empty"}
        THEN [raised |-> "", validated |-> <<>>]
        ELSE Parsed_(json_loads(attachments))

\* The parts of a user prompt: the text, ImageUrl(url=...), DocumentUrl(url=...)
Text(prompt) == [kind |-> "str", value |-> <<prompt>>]
ImageUrl(url) == [kind |-> "image-url", value |-> url]
DocumentUrl(url) == [kind |-> "document-url", value |-> url]

\* The MIME types stream_messages passes on as documents.
DocumentTypes ==
    { <<"application", "/", "pdf">>, <<"text", "/", "plain">>, <<"text", "/", "html">>,
      <<"application", "/", "msword">>,
      <<"application", "/", "vnd.openxmlformats-officedocument.wordprocessingml.document">>,
      <<"application", "/", "vnd.ms-excel">>,
      <<"application", "/", "vnd.openxmlformats-officedocument.spreadsheetml.sheet">> }

\* for attachment in validated_attachments: the part it adds to prompt_parts.
PartOf(attachment) ==
    LET Part_(mime_type) ==
            IF startswith(mime_type, <<"image", "/">>) THEN <<ImageUrl(attachment.url)>>
            ELSE IF mime_type \in DocumentTypes THEN <<DocumentUrl(attachment.url)>>
            ELSE <<>>
    IN  Part_(lower(attachment.file_type))

RECURSIVE AttachmentParts(_)
AttachmentParts(validated) ==
    IF validated = <<>> THEN <<>>
    ELSE PartOf(Head(validated)) \o AttachmentParts(Tail(validated))

\* prompt_parts = [prompt] and the parts of the attachments
prompt_parts(prompt, validated) == <<Text(prompt)>> \o AttachmentParts(validated)

-----------------------------------------------------------------------------
(* Table users *)

UserIdsIn(rows) == {u.id : u \in rows}

\* The INSERT of get_or_create_user raises when the new row would break
\* UNIQUE(username); a conflict on the primary key is absorbed by
\* ON CONFLICT (id) DO NOTHING, which is arbitrated before the other indexes.
UsernameTaken(username) == \E u \in users : u.username # Null /\ u.username = username

\* INSERT INTO users (id, username) VALUES ($1, $2) ON CONFLICT (id) DO NOTHING
InsertUser(user_id, username) ==
    IF user_id \in UserIdsIn(users)
    THEN [raised |-> FALSE, users |-> users]
    ELSE IF UsernameTaken(username)
    THEN [raised |-> TRUE, users |-> users]
    ELSE [raised |-> FALSE,
          users |-> users \cup {[id |-> user_id, username |-> username, provider_id |-> Null]}]

\* user_service.create_or_update_user: SELECT by provider_id, then UPDATE the
\* profile columns or INSERT a row whose id is the provider id.
create_or_update_user(provider_id) ==
    IF \E u \in users : u.provider_id = provider_id
    THEN [raised |-> FALSE, users |-> users]
    ELSE IF provider_id \in UserIdsIn(users)
    THEN [raised |-> TRUE, users |-> users]
    ELSE [raised |-> FALSE,
          users |-> users \cup {[id |-> provider_id, username |-> Null, provider_id |-> provider_id]}]

-----------------------------------------------------------------------------
(* Table conversations *)

ConvRow(conversation_id, user_id, title, updated_at) ==
    [id |-> conversation_id, user_id |-> user_id, title |-> title,
     updated_at |-> updated_at, is_active |-> TRUE]

\* SELECT 1 FROM conversations WHERE id = $1
conversation_exists(conversation_id) ==
    \E c \in conversations : c.id = conversation_id

\* A variant of the ownership query that forgets the user:
\* SELECT 1 FROM conversations WHERE id = $1 AND is_active = TRUE
user_owns_conversation_any_user(conversation_id, user_id) ==
    conversation_exists(conversation_id)

\* SELECT 1 FROM conversations WHERE id = $1 AND user_id = $2
user_owns_conversation(conversation_id, user_id) ==
    \E c \in conversations : c.id = conversation_id /\ c.user_id = user_id

\* SELECT user_id FROM conversations WHERE id = $1: the owners found.
get_conversation_owner(conversation_id) ==
    {c.user_id : c \in {d \in conversations : d.id = conversation_id}}

\* A variant of the insert that skips an id already taken:
\* INSERT ... ON CONFLICT (id) DO NOTHING
create_conversation_do_nothing(conversation_id, user_id, title) ==
    IF user_id \notin UserIdsIn(users)
    THEN [raised |-> TRUE, conversations |-> conversations]
    ELSE IF conversation_exists(conversation_id)
    THEN [raised |-> FALSE, conversations |-> conversations]
    ELSE [raised |-> FALSE,
          conversations |-> conversations \cup {ConvRow(conversation_id, user_id, title, now)}]

\* A variant of the insert that takes over an id already taken:
\* INSERT ... ON CONFLICT (id) DO UPDATE SET user_id = EXCLUDED.user_id
create_conversation_upsert(conversation_id, user_id, title) ==
    IF user_id \notin UserIdsIn(users)
    THEN [raised |-> TRUE, conversations |-> conversations]
    ELSE [raised |-> FALSE,
          conversations |->
              {c \in conversations : c.id # conversation_id}
                  \cup {ConvRow(conversation_id, user_id, title, now)}]

\* INSERT INTO conversations (id, user_id, title): raises on the primary key
\* and on the foreign key user_id REFERENCES users(id).
create_conversation_with_id(conversation_id, user_id, title) ==
    IF conversation_exists(conversation_id) \/ user_id \notin UserIdsIn(users)
    THEN [raised |-> TRUE, conversations |-> conversations]
    ELSE [raised |-> FALSE,
          conversations |-> conversations \cup {ConvRow(conversation_id, user_id, title, now)}]

\* A variant of the transfer that forgets whose rows to move:
\* UPDATE conversations SET user_id = $1, updated_at = NOW() WHERE is_active = TRUE
transfer_all_conversations_to_user(from_user_id, to_user_id) ==
    LET hit == {c \in conversations : c.is_active}
    IN  IF hit # {} /\ to_user_id \notin UserIdsIn(users)
        THEN [raised |-> TRUE, rows_affected |-> 0, conversations |-> conversations]
        ELSE [raised |-> FALSE, rows_affected |-> Cardinality(hit),
              conversations |-> (conversations \ hit) \cup
                  {[c EXCEPT !.user_id = to_user_id, !.updated_at = now] : c \in hit}]

\* UPDATE conversations SET user_id = $1, updated_at = NOW()
\*   WHERE user_id = $2 AND is_active = TRUE
\* The status "UPDATE n" is the number of rows matched.
transfer_conversations_to_user(from_user_id, to_user_id) ==
    LET hit == {c \in conversations : c.user_id = from_user_id /\ c.is_active}
    IN  IF hit # {} /\ to_user_id \notin UserIdsIn(users)
        THEN [raised |-> TRUE, rows_affected |-> 0, conversations |-> conversations]
        ELSE [raised |-> FALSE, rows_affected |-> Cardinality(hit),
              conversations |-> (conversations \ hit) \cup
                  {[c EXCEPT !.user_id = to_user_id, !.updated_at = now] : c \in hit}]

\* UPDATE conversations SET user_id = $1, updated_at = NOW() WHERE id = $2
update_conversation_owner(conversation_id, new_user_id) ==
    LET hit == {c \in conversations : c.id = conversation_id}
    IN  IF hit # {} /\ new_user_id \notin UserIdsIn(users)
        THEN [raised |-> TRUE, result |-> FALSE, conversations |-> conversations]
        ELSE [raised |-> FALSE, result |-> Cardinality(hit) = 1,
              conversations |-> (conversations \ hit) \cup
                  {[c EXCEPT !.user_id = new_user_id, !.updated_at = now] : c \in hit}]

-----------------------------------------------------------------------------
(* Table messages *)

\* result.new_messages_json() ... .decode("utf-8"): the batch as stored text,
\* and ModelMessagesTypeAdapter.validate_json reading it back.
DumpJson(batch) == [json |-> batch]
ValidateJson(message_list) == message_list.json

\* The rows of a set in ascending order of id.
RECURSIVE OrderById(_)
OrderById(rows) ==
    IF rows = {} THEN <<>>
    ELSE LET first == CHOOSE r \in rows : \A q \in rows : r.id <= q.id
         IN  <<first>> \o OrderById(rows \ {first})

RECURSIVE Extend(_)
Extend(rows) ==
    IF rows = <<>> THEN <<>>
    ELSE ValidateJson(Head(rows).message_list) \o Extend(Tail(rows))

\* A variant of the history query that reads the latest batch first:
\* SELECT message_list FROM messages WHERE conversation_id = $1 ORDER BY id DESC
RECURSIVE Reverse(_)
Reverse(seq) == IF seq = <<>> THEN <<>> ELSE Reverse(Tail(seq)) \o <<Head(seq)>>

get_conversation_messages_desc(conversation_id) ==
    Extend(Reverse(OrderById({m \in messages : m.conversation_id = conversation_id})))

\* SELECT message_list FROM messages WHERE conversation_id = $1 ORDER BY id
get_conversation_messages(conversation_id) ==
    Extend(OrderById({m \in messages : m.conversation_id = conversation_id}))

\* A variant of the INSERT that keeps one row for each conversation, the new
\* batch taking the place of the stored ones.
InsertMessages_replacing(conversation_id, message_list) ==
    IF ~conversation_exists(conversation_id)
    THEN [raised |-> TRUE, messages |-> messages]
    ELSE [raised |-> FALSE,
          messages |-> {m \in messages : m.conversation_id # conversation_id} \cup
              {[id |-> msg_seq + 1, conversation_id |-> conversation_id,
                message_list |-> message_list]}]

\* A variant of the INSERT that adds the new batch to the latest row of the
\* conversation when it has one, the two batches becoming one.
InsertMessages_merging(conversation_id, message_list) ==
    IF ~conversation_exists(conversation_id)
    THEN [raised |-> TRUE, messages |-> messages]
    ELSE IF \E m \in messages : m.conversation_id = conversation_id
    THEN LET Merge_(last) ==
                 [raised |-> FALSE,
                  messages |-> (messages \ {last}) \cup
                      {[last EXCEPT !.message_list =
                            DumpJson(ValidateJson(last.message_list) \o ValidateJson(message_list))]}]
         IN  Merge_(CHOOSE m \in messages :
                        /\ m.conversation_id = conversation_id
                        /\ \A q \in messages : q.conversation_id = conversation_id => q.id <= m.id)
    ELSE [raised |-> FALSE,
          messages |-> messages \cup
              {[id |-> msg_seq + 1, conversation_id |-> conversation_id,
                message_list |-> message_list]}]

\* INSERT INTO messages (conversation_id, message_list) VALUES ($1, $2):
\* raises on the foreign key conversation_id REFERENCES conversations(id).
\* nextval of the SERIAL is taken, and kept, also by an INSERT that fails.
InsertMessages(conversation_id, message_list) ==
    IF ~conversation_exists(conversation_id)
    THEN [raised |-> TRUE, messages |-> messages]
    ELSE [raised |-> FALSE,
          messages |-> messages \cup
              {[id |-> msg_seq + 1, conversation_id |-> conversation_id,
                message_list |-> message_list]}]

\* UPDATE conversations SET updated_at = CURRENT_TIMESTAMP WHERE id = $1
TouchConversation(conversation_id) ==
    {IF c.id = conversation_id THEN [c EXCEPT !.updated_at = now] ELSE c : c \in conversations}

\* COUNT(m.id) of the LEFT JOIN in get_user_conversations
MessageCount(conversation_id) ==
    Cardinality({m \in messages : m.conversation_id = conversation_id})

\* The rows of a set by updated_at, latest first (rows of equal updated_at in
\* some order).
RECURSIVE OrderByUpdatedDesc(_)
OrderByUpdatedDesc(rows) ==
    IF rows = {} THEN <<>>
    ELSE LET first == CHOOSE r \in rows : \A q \in rows : r.updated_at >= q.updated_at
         IN  <<first>> \o OrderByUpdatedDesc(rows \ {first})

\* LIMIT $2: PostgreSQL rejects a negative row count ("LIMIT must not be
\* negative"), and execute raises; every other count is taken as it is.
LimitRaises(limit) == limit < 0

\* A variant of the listing query that reads the oldest first:
\*   ORDER BY c.updated_at ASC LIMIT $2
get_user_conversations_asc(user_id, limit) ==
    LET rows == Reverse(OrderByUpdatedDesc({c \in conversations : c.user_id = user_id /\ c.is_active}))
    IN  [i \in 1..(IF Len(rows) < limit THEN Len(rows) ELSE limit) |->
            [id |-> rows[i].id, title |-> rows[i].title,
             updated_at |-> rows[i].updated_at, message_count |-> MessageCount(rows[i].id)]]

\* SELECT ... WHERE c.user_id = $1 AND c.is_active = TRUE
\*   ORDER BY c.updated_at DESC LIMIT $2
get_user_conversations(user_id, limit) ==
    LET rows == OrderByUpdatedDesc({c \in conversations : c.user_id = user_id /\ c.is_active})
    IN  [i \in 1..(IF Len(rows) < limit THEN Len(rows) ELSE limit) |->
            [id |-> rows[i].id, title |-> rows[i].title,
             updated_at |-> rows[i].updated_at, message_count |-> MessageCount(rows[i].id)]]

-----------------------------------------------------------------------------
(* Session store and identity resolution *)

\* The user data a session is created from, as a dict: user_data.get(k) is
\* <<>> (None) or <<value>>.
UserData(provider_id) ==
    [id |-> <<provider_id>>, provider_id |-> <<provider_id>>, email |-> <<"e">>,
     name |-> <<"n">>, picture |-> <<>>, provider |-> <<"google">>]

\* Times are counted in seconds. timedelta(days=...), a datetime object, and
\* the ISO 8601 text of one.
timedelta(days) == days * SecondsPerDay
DateTime(t) == <<"datetime", t>>
IsoFormat(d) == <<"iso", d[2]>>
FromIsoFormat(s) == <<"datetime", s[2]>>

RequiredFields == {"id", "provider_id", "email", "name", "provider"}

\* A variant of the model whose fields are all optional.
SessionData_all_optional(user_data, created_at, expires_at) ==
    << [id |-> user_data.id, provider_id |-> user_data.provider_id,
        email |-> user_data.email, name |-> user_data.name,
        picture |-> user_data.picture, provider |-> user_data.provider,
        created_at |-> created_at, expires_at |-> expires_at] >>

\* SessionData(...): the model object; <<>> when validation fails (a required
\* field is None).
SessionData(user_data, created_at, expires_at) ==
    IF \E k \in RequiredFields : user_data[k] = <<>>
    THEN <<>>
    ELSE << [id |-> user_data.id, provider_id |-> user_data.provider_id,
             email |-> user_data.email, name |-> user_data.name,
             picture |-> user_data.picture, provider |-> user_data.provider,
             created_at |-> created_at, expires_at |-> expires_at] >>

\* session_data.model_dump_json(): datetimes are written as ISO text.
model_dump_json(data) ==
    [json |-> [data EXCEPT !.created_at = IsoFormat(@), !.expires_at = IsoFormat(@)]]

\* SessionData.model_validate_json(text): <<object>>, or <<>> for a
\* ValidationError (a required field missing, or a time that is no ISO text).
model_validate_json(text) ==
    IF \/ \E k \in RequiredFields : text.json[k] = <<>>
       \/ text.json.created_at[1] # "iso" \/ text.json.expires_at[1] # "iso"
    THEN <<>>
    ELSE << [text.json EXCEPT !.created_at = FromIsoFormat(@),
                              !.expires_at = FromIsoFormat(@)] >>

\* parsed_data.model_dump(): the fields as python values, datetimes included.
model_dump(data) == data

\* json.dumps(session_data): <<text>>, or <<>> for the TypeError it raises on
\* a value that is a datetime object.
json_dumps(session_data) ==
    IF session_data.created_at[1] = "datetime" \/ session_data.expires_at[1] = "datetime"
    THEN <<>>
    ELSE << [json |-> session_data] >>

\* A store (the Redis keyspace, or _memory_store) with key set, and without.
Put(store, key, rec) ==
    [k \in DOMAIN store \cup {key} |-> IF k = key THEN rec ELSE store[k]]
Drop(store, key) == [k \in DOMAIN store \ {key} |-> store[k]]

\* A stored record with its time to live, and whether that time has passed.
Stored(value, expire_seconds) ==
    [value |-> value,
     expire_at |-> IF expire_seconds # 0
                   THEN <<now + expire_seconds>> ELSE <<>>]
Expired(rec) == rec.expire_at # <<>> /\ now > rec.expire_at[1]

\* The property redis of the service: the first access gets the client and
\* pings it; a failure switches the service to its memory store for good.
RedisProperty(service) ==
    IF ~service.redis /\ service.use_redis
    THEN IF redis_up THEN [service EXCEPT !.redis = TRUE]
         ELSE [service EXCEPT !.use_redis = FALSE]
    ELSE service

\* "self._use_redis and self.redis", after the property has been evaluated.
UsesRedis(service) == service.use_redis /\ service.redis

\* The store operations take the state st = [sessions, service] they start
\* from and return the state they leave, what they return, and in raised the
\* exception that left them ("" for none).
Left(st, raised, result) ==
    [raised |-> raised, result |-> result, sessions |-> st.sessions, service |-> st.service]

\* _set_data(key, value, expire_seconds)
set_data(st, key, value, expire_seconds) ==
    LET Set_(service, rec) ==
            IF UsesRedis(service)
            THEN IF ~redis_up
                 THEN Left([st EXCEPT !.service = service], "ConnectionError", FALSE)
                 ELSE Left([sessions |-> Put(st.sessions, key, rec), service |-> service],
                           "", TRUE)
            ELSE Left([st EXCEPT !.service = [service EXCEPT !.memory_store = Put(@, key, rec)]],
                      "", TRUE)
    IN  Set_(RedisProperty(st.service), Stored(value, expire_seconds))

\* _get_data(key): result is <<>> (None) or <<value>>. A key whose time to
\* live has passed is gone from Redis; the memory store drops it on the read.
get_data(st, key) ==
    LET Get_(service) ==
            IF UsesRedis(service)
            THEN IF ~redis_up
                 THEN Left([st EXCEPT !.service = service], "ConnectionError", <<>>)
                 ELSE IF key \notin DOMAIN st.sessions
                 THEN Left([st EXCEPT !.service = service], "", <<>>)
                 ELSE IF Expired(st.sessions[key])
                 THEN Left([sessions |-> Drop(st.sessions, key), service |-> service], "", <<>>)
                 ELSE Left([st EXCEPT !.service = service], "", <<st.sessions[key].value>>)
            ELSE IF key \notin DOMAIN service.memory_store
                 THEN Left([st EXCEPT !.service = service], "", <<>>)
                 ELSE IF Expired(service.memory_store[key])
                 THEN Left([st EXCEPT !.service =
                               [service EXCEPT !.memory_store = Drop(@, key)]], "", <<>>)
                 ELSE Left([st EXCEPT !.service = service], "",
                           <<service.memory_store[key].value>>)
    IN  Get_(RedisProperty(st.service))

\* A variant of the deletion that empties the store it works on.
delete_data_flushing(st, key) ==
    LET Delete_(service) ==
            IF UsesRedis(service)
            THEN IF ~redis_up
                 THEN Left([st EXCEPT !.service = service], "ConnectionError", FALSE)
                 ELSE Left([sessions |-> <<>>, service |-> service], "",
                           key \in DOMAIN st.sessions /\ ~Expired(st.sessions[key]))
            ELSE Left([st EXCEPT !.service = [service EXCEPT !.memory_store = <<>>]],
                      "", key \in DOMAIN service.memory_store)
    IN  Delete_(RedisProperty(st.service))

\* _delete_data(key): whether a record was removed.
delete_data(st, key) ==
    LET Delete_(service) ==
            IF UsesRedis(service)
            THEN IF ~redis_up
                 THEN Left([st EXCEPT !.service = service], "ConnectionError", FALSE)
                 ELSE Left([sessions |-> Drop(st.sessions, key), service |-> service], "",
                           key \in DOMAIN st.sessions /\ ~Expired(st.sessions[key]))
            ELSE Left([st EXCEPT !.service = [service EXCEPT !.memory_store = Drop(@, key)]],
                      "", key \in DOMAIN service.memory_store)
    IN  Delete_(RedisProperty(st.service))

\* delete_session(session_id)
delete_session_in(st, session_id) == delete_data(st, session_id)

\* create_session(user_data, expires_in_days) under the id generate_session_id
\* returned: the object is built, and validated, before anything is stored.
create_session_in(st, session_id, user_data, expires_in_days) ==
    LET Create_(session_data) ==
            IF session_data = <<>>
            THEN Left(st, "ValidationError", FALSE)
            ELSE set_data(st, session_id, model_dump_json(session_data[1]),
                          expires_in_days * SecondsPerDay)
    IN  Create_(SessionData(user_data, DateTime(now),
                            DateTime(now + timedelta(expires_in_days))))

\* What get_session returns: None, and the store as the deletion left it.
Deleted(del) == [del EXCEPT !.result = <<>>]

\* The store a method left, to go on from.
StoreOf(out) == [sessions |-> out.sessions, service |-> out.service]

\* A variant of get_session that leaves the expiry to the store's time to live
\* and does not look at expires_at.
get_session_in_trusting_ttl(st, session_id) ==
    LET Parsed_(got, parsed_data) ==
            IF parsed_data = <<>>
            THEN Deleted(delete_session_in(StoreOf(got), session_id))
            ELSE Left(StoreOf(got), "", <<model_dump(parsed_data[1])>>)
        Get_(got) ==
            IF got.raised # "" \/ got.result = <<>>
            THEN got
            ELSE Parsed_(got, model_validate_json(got.result[1]))
    IN  Get_(get_data(st, session_id))

\* get_session(session_id): result is <<>> (None) or <<payload>>; a record
\* that does not validate, or whose expires_at has passed, is deleted.
get_session_in(st, session_id) ==
    LET Parsed_(got, parsed_data) ==
            IF parsed_data = <<>> \/ now > parsed_data[1].expires_at[2]
            THEN Deleted(delete_session_in(StoreOf(got), session_id))
            ELSE Left(StoreOf(got), "", <<model_dump(parsed_data[1])>>)
        Get_(got) ==
            IF got.raised # "" \/ got.result = <<>>
            THEN got
            ELSE Parsed_(got, model_validate_json(got.result[1]))
    IN  Get_(get_data(st, session_id))

\* refresh_session(session_id, expires_in_days)
refresh_session_in(st, session_id, expires_in_days) ==
    LET Write_(after, dumped) ==
            IF ~UsesRedis(after.service)
            THEN Left(after, "", FALSE)
            ELSE IF dumped = <<>>
            THEN Left(after, "TypeError", FALSE)
            ELSE IF ~redis_up
            THEN Left(after, "ConnectionError", FALSE)
            ELSE Left([after EXCEPT !.sessions =
                           Put(@, session_id,
                               Stored(dumped[1], expires_in_days * SecondsPerDay))],
                      "", TRUE)
        Refresh_(got) ==
            IF got.raised # "" \/ got.result = <<>>
            THEN [got EXCEPT !.result = FALSE]
            ELSE Write_([sessions |-> got.sessions, service |-> RedisProperty(got.service)],
                        json_dumps([got.result[1] EXCEPT
                            !.expires_at = IsoFormat(DateTime(now + timedelta(expires_in_days)))]))
    IN  Refresh_(get_session_in(st, session_id))

\* The operations on the state the system is in.
Here == [sessions |-> sessions, service |-> session_service]
create_session(session_id, user_data, expires_in_days) ==
    create_session_in(Here, session_id, user_data, expires_in_days)
get_session(session_id) == get_session_in(Here, session_id)
delete_session(session_id) == delete_session_in(Here, session_id)
refresh_session(session_id, expires_in_days) ==
    refresh_session_in(Here, session_id, expires_in_days)

\* A request's cookies: session_id is <<>> or <<id>>; anonymous_user_id is
\* Null (absent or empty, the same to "if anonymous_id:") or a value.
\* get_authenticated_user_id: (user_id, is_authenticated), the store left, and
\* the exception of the session store, which the function does not catch.
get_authenticated_user_id(session_cookie) ==
    LET Auth_(got) ==
            [user_id |-> IF got.result # <<>> THEN got.result[1].id[1] ELSE None,
             is_authenticated |-> got.result # <<>>,
             sessions |-> got.sessions, service |-> got.service, raised |-> got.raised]
    IN  Auth_(IF session_cookie = <<>> THEN Left(Here, "", <<>>)
              ELSE get_session(session_cookie[1]))

\* Ids uuid4 can still return: not a user's, not carried by a request in flight.
FreshAnonIds ==
    AnonIds \ (UserIdsIn(users) \cup {req[r].user_id : r \in Reqs} \cup {req[r].anon : r \in Reqs})

\* get_or_create_anonymous_user_id: the cookie's value if it has one, else a
\* new id (minted is the id uuid4 returns).
get_or_create_anonymous_user_id(anon_cookie, minted) ==
    IF anon_cookie # Null THEN anon_cookie ELSE minted

\* What the resolver returns: the user id, whether it is an anonymous one, and
\* what the session lookup left and raised.
Resolved(auth, user_id, is_anonymous) ==
    [user_id |-> user_id, is_anonymous |-> is_anonymous,
     sessions |-> auth.sessions, service |-> auth.service, raised |-> auth.raised]

\* A variant of the resolver that looks at the anonymous cookie first.
get_user_id_for_conversation_cookie_first(session_cookie, anon_cookie, minted) ==
    LET Resolve_(auth) ==
            IF anon_cookie # Null \/ ~auth.is_authenticated
            THEN Resolved(auth, get_or_create_anonymous_user_id(anon_cookie, minted), TRUE)
            ELSE Resolved(auth, auth.user_id, FALSE)
    IN  Resolve_(get_authenticated_user_id(session_cookie))

\* get_user_id_for_conversation: (user_id, is_anonymous)
get_user_id_for_conversation(session_cookie, anon_cookie, minted) ==
    LET Resolve_(auth) ==
            IF auth.is_authenticated
            THEN Resolved(auth, auth.user_id, FALSE)
            ELSE Resolved(auth, get_or_create_anonymous_user_id(anon_cookie, minted), TRUE)
    IN  Resolve_(get_authenticated_user_id(session_cookie))

\* The anonymous_user_id cookie of the response the client receives. The
\* handlers set it on the injected Response parameter; its headers reach the
\* client only when the handler returns a value that is not itself a Response
\* (get_conversations returns a model). get_chat and post_chat return their own
\* Response / StreamingResponse and a raised HTTPException is rendered as its
\* own response: those carry no cookie.
ResponseCookie(returned, injected) ==
    IF returned = "model" THEN injected ELSE Null

-----------------------------------------------------------------------------
(* Requests *)

\* A request slot. ep is the endpoint ("idle" when the slot is free), pc the
\* await the handler stands at. session and anon are the request's cookies.
\* result is what a direct call of a store method returned; payload what
\* get_session returned (<<>> for None) and user_data the dict create_session
\* was given, with count its expires_in_days.
\* injected is the cookie set on the injected Response; status, cookie, detail,
\* lines, listing, count and stream are the response as the client sees it (status 0:
\* nothing sent yet). checked, created, did_read and did_append record what
\* the handler has done: the outcome of its ownership check ("" none,
\* "absent", "other", "own"), and whether it created the conversation, read
\* its history and appended to it. alone records the order of arrival of a turn:
\* the POST was received while no other request was in flight.
Idle ==
    [ep |-> "idle", pc |-> "idle", session |-> <<>>, anon |-> Null, conv |-> "",
     prompt |-> "", user_id |-> None, is_anonymous |-> FALSE, minted |-> FALSE,
     attachments |-> NoAttachments,
     exists |-> FALSE, batch |-> <<>>, injected |-> Null,
     status |-> 0, cookie |-> Null, detail |-> "", lines |-> <<>>, listing |-> <<>>,
     count |-> 0, result |-> FALSE, payload |-> <<>>, user_data |-> <<>>,
     stream |-> "",
     checked |-> "", created |-> FALSE, did_read |-> FALSE, did_append |-> FALSE,
     alone |-> FALSE]

Init ==
    /\ users = {}
    /\ conversations = {}
    /\ messages = {}
    /\ msg_seq = 0
    /\ sessions = <<>>
    /\ session_service = [use_redis |-> TRUE, redis |-> FALSE, memory_store |-> <<>>]
    /\ redis_up = TRUE
    /\ issued = <<>>
    /\ now = 0
    /\ ticks = 0
    /\ req = [r \in Reqs |-> Idle]
    /\ origOwner = [c \in ConvIds |-> None]
    /\ appendLog = [c \in ConvIds |-> <<>>]

Set(r, rec) == req' = [req EXCEPT ![r] = rec]

\* The handler's response: an HTTPException, or a returned value.
Raise(rec, status, detail) ==
    [rec EXCEPT !.pc = "done", !.status = status, !.detail = detail,
                !.cookie = ResponseCookie("exception", rec.injected)]

\* Where a conversation endpoint goes once the caller's user row is ensured.
AfterEnsure(ep) ==
    CASE ep = "get_conversations" -> "list"
      [] ep = "get_chat" -> "owns"
      [] ep = "post_chat" -> "exists"
      [] ep = "get_or_create_user" -> "done"

\* How many batches the requests in flight may still append.
PendingAppends ==
    Cardinality({r \in Reqs : req[r].ep \in {"post_chat", "add_messages_to_conversation"}
                                /\ req[r].pc # "done"})

CanAppend == msg_seq + PendingAppends < MaxBatches

\* The slots are interchangeable: a request takes the lowest free one.
FreeSlot(r) == req[r].ep = "idle" /\ \A q \in 1..(r - 1) : req[q].ep # "idle"

\* A request to one of the conversation endpoints arrives; the handler runs to
\* its first await: get_user_id_for_conversation, set_anonymous_user_cookie and
\* the is_anonymous test of ensure_anonymous_user_exists.
Arrive(r, ep, session_cookie, anon_cookie, conversation_id, prompt, attachments, minted) ==
    /\ FreeSlot(r)
    /\ ep = "post_chat" => CanAppend
    /\ LET who == get_user_id_for_conversation(session_cookie, anon_cookie, minted)
           rec == [Idle EXCEPT
                  !.ep = ep, !.session = session_cookie, !.anon = anon_cookie,
                  !.conv = conversation_id, !.prompt = prompt,
                  !.attachments = attachments,
                  !.alone = ep = "post_chat" /\ \A q \in Reqs \ {r} : req[q].ep = "idle"]
       IN  /\ sessions' = who.sessions
           /\ session_service' = who.service
           /\ Set(r, IF who.raised # "" THEN Raise(rec, 500, who.raised)
                     ELSE [rec EXCEPT
                  !.user_id = who.user_id, !.is_anonymous = who.is_anonymous,
                  !.minted = who.is_anonymous /\ anon_cookie = Null,
                  !.injected = IF who.is_anonymous THEN who.user_id ELSE Null,
                  !.pc = IF who.is_anonymous THEN "select_user" ELSE AfterEnsure(ep)])
    /\ UNCHANGED <<users, conversations, messages, msg_seq, issued, now, ticks, origOwner, appendLog, redis_up>>

\* migrate_conversations up to its first await: 401 without a live session,
\* nothing to do without an anonymous cookie.
MigrateArrive(r, session_cookie, anon_cookie) ==
    /\ FreeSlot(r)
    /\ LET auth == get_authenticated_user_id(session_cookie)
           rec == [Idle EXCEPT !.ep = "migrate", !.session = session_cookie,
                               !.anon = anon_cookie,
                               !.user_id = auth.user_id,
                               !.is_anonymous = ~auth.is_authenticated]
       IN  /\ sessions' = auth.sessions
           /\ session_service' = auth.service
           /\ Set(r, IF auth.raised # "" THEN Raise(rec, 500, auth.raised)
                     ELSE IF ~auth.is_authenticated
                     THEN Raise(rec, 401, "User must be authenticated to migrate conversations")
                     ELSE IF anon_cookie = Null
                     THEN [rec EXCEPT !.pc = "done", !.status = 200,
                                      !.detail = "No anonymous conversations to migrate"]
                     ELSE [rec EXCEPT !.pc = "transfer"])
    /\ UNCHANGED <<users, conversations, messages, msg_seq, issued, now, ticks, origOwner, appendLog, redis_up>>

\* The prompts are free text; the client on slot r sends its own.
PromptOf(r) == <<"p1", "p2", "p3">>[r]

\* uuid4 is called only when the request has neither a live session nor an
\* anonymous cookie; it then returns an id nobody holds yet.
MintChoices(session_cookie, anon_cookie) ==
    IF get_authenticated_user_id(session_cookie).is_authenticated \/ anon_cookie # Null
    THEN {None}
    ELSE FreshAnonIds

\* The requests a population of clients sends to one of the conversation
\* endpoints: the cookies they carry and the conversation ids they name.
ArriveAny(r, ep, session_cookies, anon_cookies, convs) ==
    /\ FreeSlot(r)
    /\ \E session_cookie \in session_cookies, anon_cookie \in anon_cookies, c \in convs :
        \E minted \in MintChoices(session_cookie, anon_cookie) :
            Arrive(r, ep, session_cookie, anon_cookie, c,
                   IF ep = "post_chat" THEN PromptOf(r) ELSE "", NoAttachments, minted)

\* POST /chat/{id} of an anonymous caller with an attachments form field.
ArriveWithAttachments(r, anon_cookie, conversation_id, attachments) ==
    \E minted \in MintChoices(<<>>, anon_cookie) :
        Arrive(r, "post_chat", <<>>, anon_cookie, conversation_id, PromptOf(r),
               attachments, minted)

\* ChatUser.model_validate(dict(existing_user)) of get_or_create_user. The
\* class ChatUser is not part of the sources at hand: whether it accepts the
\* row of a provider user, whose username is NULL, is left open.
ChatUserValidates(user_id) ==
    IF \E u \in users : u.id = user_id /\ u.username = Null THEN {TRUE, FALSE} ELSE {TRUE}

\* get_or_create_user: SELECT ... FROM users WHERE id = $1
SelectUser(r) ==
    /\ req[r].pc = "select_user"
    /\ \E valid \in ChatUserValidates(req[r].user_id) :
          Set(r, IF ~valid THEN Raise(req[r], 500, "ValidationError")
                 ELSE [req[r] EXCEPT !.pc =
                    IF req[r].user_id \in UserIdsIn(users) THEN AfterEnsure(req[r].ep)
                    ELSE "insert_user"])
    /\ UNCHANGED <<users, conversations, messages, msg_seq, sessions, session_service, issued, now, ticks, origOwner, appendLog, redis_up>>

\* get_or_create_user: the INSERT, and the SELECT of the row after it (no
\* statement deletes a user, so that SELECT finds the row).
InsertUserStep(r) ==
    /\ req[r].pc = "insert_user"
    /\ LET ins == InsertUser(req[r].user_id, AnonymousUsername(req[r].user_id))
       IN  /\ users' = ins.users
           /\ Set(r, IF ins.raised THEN Raise(req[r], 500, "Internal Server Error")
                     ELSE [req[r] EXCEPT !.pc = AfterEnsure(req[r].ep)])
    /\ UNCHANGED <<conversations, messages, msg_seq, sessions, session_service, issued, now, ticks, origOwner, appendLog, redis_up>>

\* get_conversations: database.get_user_conversations(user_id), returned as a
\* ConversationsResponse.
List(r) ==
    /\ req[r].pc = "list"
    /\ Set(r, [req[r] EXCEPT
            !.pc = "done", !.status = 200,
            !.cookie = ResponseCookie("model", req[r].injected),
            !.listing = get_user_conversations(req[r].user_id, DefaultLimit)])
    /\ UNCHANGED <<users, conversations, messages, msg_seq, sessions, session_service, issued, now, ticks, origOwner, appendLog, redis_up>>

\* post_chat: exists = await database.conversation_exists(conversation_id)
Exists(r) ==
    /\ req[r].pc = "exists"
    /\ LET e == conversation_exists(req[r].conv)
       IN  Set(r, [req[r] EXCEPT !.exists = e,
                      !.checked = IF e THEN "" ELSE "absent",
                      !.pc = IF e THEN "owns" ELSE "echo"])
    /\ UNCHANGED <<users, conversations, messages, msg_seq, sessions, session_service, issued, now, ticks, origOwner, appendLog, redis_up>>

\* get_chat, post_chat: if not await database.user_owns_conversation(...): 404
Owns(r) ==
    /\ req[r].pc = "owns"
    /\ LET rec == req[r]
           absent == ~conversation_exists(rec.conv)
       IN  IF user_owns_conversation(rec.conv, rec.user_id)
           THEN Set(r, [rec EXCEPT !.checked = "own",
                           !.pc = IF rec.ep = "get_chat" THEN "read" ELSE "echo"])
           ELSE Set(r, [Raise(rec, 404, "Conversation not found") EXCEPT
                           !.checked = IF absent THEN "absent" ELSE "other"])
    /\ UNCHANGED <<users, conversations, messages, msg_seq, sessions, session_service, issued, now, ticks, origOwner, appendLog, redis_up>>

\* json.dumps(chat_msg) raises TypeError for a content that holds an object
\* (ImageUrl, DocumentUrl); the content of a user line is the list that was
\* the user_prompt, the content of a model line is a string.
JsonSerializable(chat_msg) ==
    chat_msg.role = "model"
        \/ \A i \in 1..Len(chat_msg.content) : chat_msg.content[i].kind = "str"

\* get_chat: the stored messages as chat lines, in a Response of its own;
\* what json.dumps raises leaves the handler.
Read(r) ==
    /\ req[r].pc = "read"
    /\ Set(r, IF \A i \in 1..Len(ChatLines(get_conversation_messages(req[r].conv))) :
                    JsonSerializable(ChatLines(get_conversation_messages(req[r].conv))[i])
              THEN [req[r] EXCEPT
            !.pc = "done", !.status = 200, !.did_read = TRUE,
            !.cookie = ResponseCookie("response", req[r].injected),
            !.lines = ChatLines(get_conversation_messages(req[r].conv))]
              ELSE [Raise(req[r], 500, "TypeError") EXCEPT !.did_read = TRUE])
    /\ UNCHANGED <<users, conversations, messages, msg_seq, sessions, session_service, issued, now, ticks, origOwner, appendLog, redis_up>>

\* The line of the stream that echoes the prompt.
UserLine(prompt) == [role |-> "user", content |-> prompt]

\* A stream that fails after the response has started ends early.
Abort(rec) == [rec EXCEPT !.pc = "done", !.stream = "error"]

\* The prompt_parts of a request: its prompt and the parts of the attachments
\* that validated.
PromptPartsOf(rec) ==
    prompt_parts(rec.prompt, validated_attachments(rec.attachments).validated)

\* post_chat parses the attachments (what that raises leaves the handler),
\* returns its StreamingResponse, and stream_messages yields the echo of
\* the prompt.
Echo(r) ==
    /\ req[r].pc = "echo"
    /\ Set(r, IF validated_attachments(req[r].attachments).raised # ""
              THEN Raise(req[r], 500, validated_attachments(req[r].attachments).raised)
              ELSE [req[r] EXCEPT
            !.status = 200, !.stream = "open",
            !.cookie = ResponseCookie("response", req[r].injected),
            !.lines = <<UserLine(req[r].prompt)>>,
            !.pc = IF req[r].exists THEN "history" ELSE "create"])
    /\ UNCHANGED <<users, conversations, messages, msg_seq, sessions, session_service, issued, now, ticks, origOwner, appendLog, redis_up>>

\* topic_agent.run([prompt]).output.topic: the title the topic model gives.
Topic(prompt) == "topic"

\* The history of a create: a conversation row that appears has a creator.
Created(made, conversation_id, user_id) ==
    IF made.conversations = conversations THEN origOwner
    ELSE [origOwner EXCEPT ![conversation_id] = user_id]

\* The history of an UPDATE of owners: the rows it rewrites lose their creator.
Transferred(after) ==
    [c \in ConvIds |->
        IF \E x \in conversations : x.id = c /\ x \notin after THEN None ELSE origOwner[c]]

\* A variant of the creation that falls back to a row of empty title when
\* the topic call raises.
Create_untitled(r) ==
    /\ req[r].pc = "create"
    /\ \E title \in {"", Topic(req[r].prompt)} :
          LET made == create_conversation_with_id(req[r].conv, req[r].user_id, title)
          IN  /\ conversations' = made.conversations
              /\ Set(r, IF made.raised THEN Abort(req[r])
                        ELSE [req[r] EXCEPT !.pc = "history",
                                  !.created = \E x \in made.conversations \ conversations :
                                                  x.id = req[r].conv /\ x.user_id = req[r].user_id])
              /\ origOwner' = Created(made, req[r].conv, req[r].user_id)
    /\ UNCHANGED <<users, messages, msg_seq, sessions, session_service, issued, now, ticks, appendLog, redis_up>>

\* stream_messages, if not exists: the topic call, then
\* create_conversation_with_id(conversation_id, user_id, topic).
Create(r) ==
    /\ req[r].pc = "create"
    /\ \/ /\ Set(r, Abort(req[r]))          \* topic_agent.run raises
          /\ UNCHANGED <<conversations, origOwner>>
       \/ LET made == create_conversation_with_id(req[r].conv, req[r].user_id, Topic(req[r].prompt))
          IN  /\ conversations' = made.conversations
              /\ Set(r, IF made.raised THEN Abort(req[r])
                        ELSE [req[r] EXCEPT !.pc = "history",
                                  !.created = \E x \in made.conversations \ conversations :
                                                  x.id = req[r].conv /\ x.user_id = req[r].user_id])
              /\ origOwner' = Created(made, req[r].conv, req[r].user_id)
    /\ UNCHANGED <<users, messages, msg_seq, sessions, session_service, issued, now, ticks, appendLog, redis_up>>

\* stream_messages: messages = await database.get_conversation_messages(...)
\* The read raises when the database fails it.
History(r) ==
    /\ req[r].pc = "history"
    /\ \/ Set(r, Abort(req[r]))
       \/ Set(r, [req[r] EXCEPT !.pc = "run", !.did_read = TRUE])
    /\ UNCHANGED <<users, conversations, messages, msg_seq, sessions, session_service, issued, now, ticks, origOwner, appendLog, redis_up>>

\* result.stream(): the texts the model call yields, each the text produced
\* so far, the last one the whole text of the turn.
Stream(text) == <<"m", text>>

\* A variant of the streaming loop that sends the latest text first.
RECURSIVE StreamLines_latest_first(_)
StreamLines_latest_first(texts) ==
    IF texts = <<>> THEN <<>>
    ELSE StreamLines_latest_first(Tail(texts))
            \o to_chat_message(ModelResponse(<<TextPart(Head(texts))>>))

\* async for text in result.stream(...): yield the line of
\* to_chat_message(ModelResponse(parts=[TextPart(text)])).
RECURSIVE StreamLines(_)
StreamLines(texts) ==
    IF texts = <<>> THEN <<>>
    ELSE to_chat_message(ModelResponse(<<TextPart(Head(texts))>>))
            \o StreamLines(Tail(texts))

\* A variant of the streaming step that goes on to persist what it has when
\* the model call raises.
Run_saving_on_failure(r) ==
    /\ req[r].pc = "run"
    /\ \E text \in ModelTexts :
          \/ \E k \in 0..(Len(Stream(text)) - 1) :
                Set(r, [req[r] EXCEPT
                    !.pc = "append",
                    !.lines = @ \o StreamLines(SubSeq(Stream(text), 1, k)),
                    !.batch = NewMessages(PromptPartsOf(req[r]), "m")])
          \/ Set(r, [req[r] EXCEPT
                !.pc = "append",
                !.lines = @ \o StreamLines(Stream(text)),
                !.batch = NewMessages(PromptPartsOf(req[r]), text)])
    /\ UNCHANGED <<users, conversations, messages, msg_seq, sessions, session_service, issued, now, ticks, origOwner, appendLog, redis_up>>

\* stream_messages: chat_agent.run_stream; every text of result.stream() is
\* yielded as a model line. The model call raises after some of its texts,
\* or runs to its end.
Run(r) ==
    /\ req[r].pc = "run"
    /\ \E text \in ModelTexts :
          \/ \E k \in 0..(Len(Stream(text)) - 1) :
                Set(r, Abort([req[r] EXCEPT
                    !.lines = @ \o StreamLines(SubSeq(Stream(text), 1, k))]))
          \/ Set(r, [req[r] EXCEPT
                !.pc = "append",
                !.lines = @ \o StreamLines(Stream(text)),
                !.batch = NewMessages(PromptPartsOf(req[r]), text)])
    /\ UNCHANGED <<users, conversations, messages, msg_seq, sessions, session_service, issued, now, ticks, origOwner, appendLog, redis_up>>

\* The client of a streaming turn goes away while the model's texts are
\* streamed, after k of them. stream_messages has no statement that looks at
\* the connection (no request.is_disconnected(), no try/finally): the server
\* stops iterating the generator, which is cancelled where it stands, inside
\* the async for of chat_agent.run_stream; the call of
\* add_messages_to_conversation after the loop is never reached.
Disconnect(r) ==
    /\ req[r].ep = "post_chat" /\ req[r].pc = "run" /\ req[r].stream = "open"
    /\ \E text \in ModelTexts :
          \E k \in 0..Len(Stream(text)) :
             Set(r, [req[r] EXCEPT
                 !.pc = "done", !.stream = "gone",
                 !.lines = @ \o StreamLines(SubSeq(Stream(text), 1, k))])
    /\ UNCHANGED <<users, conversations, messages, msg_seq, sessions, session_service, issued, now, ticks, origOwner, appendLog, redis_up>>

\* A variant of the append that catches the failure of the INSERT and ends
\* the stream as it ends a turn that was stored.
AppendInsert_swallowing(r) ==
    /\ req[r].pc = "append"
    /\ \/ /\ Set(r, [req[r] EXCEPT !.pc = "done", !.stream = "closed"])
          /\ UNCHANGED <<messages, msg_seq, appendLog>>
       \/ LET ins == InsertMessages(req[r].conv, DumpJson(req[r].batch))
          IN  /\ messages' = ins.messages
              /\ msg_seq' = msg_seq + 1
              /\ appendLog' = IF ins.raised THEN appendLog
                              ELSE [appendLog EXCEPT ![req[r].conv] = Append(@, req[r].batch)]
              /\ Set(r, IF ins.raised THEN Abort(req[r])
                        ELSE [req[r] EXCEPT !.pc = "touch", !.did_append = TRUE])
    /\ UNCHANGED <<users, conversations, sessions, session_service, issued, now, ticks, origOwner, redis_up>>

\* add_messages_to_conversation, first statement: the INSERT. The database
\* fails the statement (the connection is lost, the pool gives none), or
\* executes it; nothing around the call catches what it raises.
AppendInsert(r) ==
    /\ req[r].pc = "append"
    /\ \/ /\ Set(r, Abort(req[r]))
          /\ UNCHANGED <<messages, msg_seq, appendLog>>
       \/ LET ins == InsertMessages(req[r].conv, DumpJson(req[r].batch))
          IN  /\ messages' = ins.messages
              /\ msg_seq' = msg_seq + 1
              /\ appendLog' = IF ins.raised THEN appendLog
                              ELSE [appendLog EXCEPT ![req[r].conv] = Append(@, req[r].batch)]
              /\ Set(r, IF ins.raised THEN Abort(req[r])
                        ELSE [req[r] EXCEPT !.pc = "touch", !.did_append = TRUE])
    /\ UNCHANGED <<users, conversations, sessions, session_service, issued, now, ticks, origOwner, redis_up>>

\* add_messages_to_conversation, second statement: the UPDATE of updated_at;
\* the generator ends and the stream closes.
AppendTouch(r) ==
    /\ req[r].pc = "touch"
    /\ conversations' = TouchConversation(req[r].conv)
    /\ Set(r, [req[r] EXCEPT !.pc = "done", !.stream = "closed"])
    /\ UNCHANGED <<users, messages, msg_seq, sessions, session_service, issued, now, ticks, origOwner, appendLog, redis_up>>

\* A variant of the transfer of migrate_conversations with its arguments
\* exchanged: transfer_conversations_to_user(from_user_id=user_id,
\* to_user_id=anonymous_user_id)
MigrateTransferToCookie(r) ==
    /\ req[r].pc = "transfer"
    /\ LET moved == transfer_conversations_to_user(req[r].user_id, req[r].anon)
       IN  /\ conversations' = moved.conversations
           /\ origOwner' = Transferred(moved.conversations)
           /\ Set(r, IF moved.raised THEN Raise(req[r], 500, "Internal Server Error")
                     ELSE [req[r] EXCEPT !.pc = "done", !.status = 200,
                                         !.count = moved.rows_affected])
    /\ UNCHANGED <<users, messages, msg_seq, sessions, session_service, issued, now, ticks, appendLog, redis_up>>

\* migrate_conversations: transfer_conversations_to_user(from_user_id=
\* anonymous_user_id, to_user_id=user_id)
MigrateTransfer(r) ==
    /\ req[r].pc = "transfer"
    /\ LET moved == transfer_conversations_to_user(req[r].anon, req[r].user_id)
       IN  /\ conversations' = moved.conversations
           /\ origOwner' = Transferred(moved.conversations)
           /\ Set(r, IF moved.raised THEN Raise(req[r], 500, "Internal Server Error")
                     ELSE [req[r] EXCEPT !.pc = "done", !.status = 200,
                                         !.count = moved.rows_affected])
    /\ UNCHANGED <<users, messages, msg_seq, sessions, session_service, issued, now, ticks, appendLog, redis_up>>

\* The client has its response; the slot is free again.
Finish(r) ==
    /\ req[r].pc = "done"
    /\ Set(r, Idle)
    /\ UNCHANGED <<users, conversations, messages, msg_seq, sessions, session_service, issued, now, ticks, origOwner, appendLog, redis_up>>

\* POST /auth/login: the provider vouches for provider_id; the user row is
\* created or updated and a session is stored under a new session id. The
\* handler catches every exception and answers "not authenticated".
Login(provider_id, session_id) ==
    /\ session_id \notin DOMAIN issued
    /\ LET up == create_or_update_user(provider_id)
           made == create_session(session_id, UserData(provider_id), ExpiresInDays)
       IN  /\ users' = up.users
           /\ IF up.raised
              THEN UNCHANGED <<sessions, session_service, issued>>
              ELSE /\ sessions' = made.sessions
                   /\ session_service' = made.service
                   /\ issued' = IF made.raised # "" THEN issued
                                ELSE [s \in DOMAIN issued \cup {session_id} |->
                                        IF s = session_id THEN provider_id ELSE issued[s]]
    /\ UNCHANGED <<conversations, messages, msg_seq, redis_up, now, ticks, req, origOwner, appendLog>>

\* POST /auth/logout: auth_service.delete_session(session_id)
Logout(session_id) ==
    /\ session_id \in DOMAIN sessions \cup DOMAIN session_service.memory_store
    /\ LET del == delete_session(session_id)
       IN  /\ sessions' = del.sessions
           /\ session_service' = del.service
    /\ UNCHANGED <<users, conversations, messages, msg_seq, redis_up, issued, now, ticks, req, origOwner, appendLog>>

\* Time passes: a day, or long enough for a session to expire.
Tick(days) ==
    /\ ticks < MaxTicks
    /\ now' = now + timedelta(days)
    /\ ticks' = ticks + 1
    /\ UNCHANGED <<users, conversations, messages, msg_seq, sessions, session_service, issued, req, origOwner, appendLog, redis_up>>

-----------------------------------------------------------------------------
(* Direct calls of the Database methods, by any caller of the store *)

\* await database.get_or_create_user(user_id, username)
CallGetOrCreateUser(r, user_id) ==
    /\ req[r].ep = "idle"
    /\ Set(r, [Idle EXCEPT !.ep = "get_or_create_user", !.pc = "select_user",
                           !.user_id = user_id, !.is_anonymous = TRUE])
    /\ UNCHANGED <<users, conversations, messages, msg_seq, sessions, session_service, issued, now, ticks, origOwner, appendLog, redis_up>>

\* await database.create_conversation_with_id(conversation_id, user_id, title)
CallCreate(r, conversation_id, user_id) ==
    /\ req[r].ep = "idle"
    /\ LET made == create_conversation_with_id(conversation_id, user_id, Topic(""))
           rec == [Idle EXCEPT !.ep = "create_conversation_with_id",
                               !.conv = conversation_id, !.user_id = user_id]
       IN  /\ conversations' = made.conversations
           /\ origOwner' = Created(made, conversation_id, user_id)
           /\ Set(r, IF made.raised THEN Raise(rec, 500, "raised")
                     ELSE [rec EXCEPT !.pc = "done", !.status = 200])
    /\ UNCHANGED <<users, messages, msg_seq, sessions, session_service, issued, now, ticks, appendLog, redis_up>>

\* n = await database.transfer_conversations_to_user(from_user_id, to_user_id)
CallTransfer(r, from_user_id, to_user_id) ==
    /\ req[r].ep = "idle"
    /\ LET moved == transfer_conversations_to_user(from_user_id, to_user_id)
           rec == [Idle EXCEPT !.ep = "transfer_conversations_to_user",
                               !.anon = from_user_id, !.user_id = to_user_id]
       IN  /\ conversations' = moved.conversations
           /\ origOwner' = Transferred(moved.conversations)
           /\ Set(r, IF moved.raised THEN Raise(rec, 500, "raised")
                     ELSE [rec EXCEPT !.pc = "done", !.status = 200,
                                      !.count = moved.rows_affected])
    /\ UNCHANGED <<users, messages, msg_seq, sessions, session_service, issued, now, ticks, appendLog, redis_up>>

\* ok = await database.update_conversation_owner(conversation_id, new_user_id)
CallUpdateOwner(r, conversation_id, new_user_id) ==
    /\ req[r].ep = "idle"
    /\ LET upd == update_conversation_owner(conversation_id, new_user_id)
           rec == [Idle EXCEPT !.ep = "update_conversation_owner",
                               !.conv = conversation_id, !.user_id = new_user_id]
       IN  /\ conversations' = upd.conversations
           /\ origOwner' = Transferred(upd.conversations)
           /\ Set(r, IF upd.raised THEN Raise(rec, 500, "raised")
                     ELSE [rec EXCEPT !.pc = "done", !.status = 200,
                                      !.result = upd.result])
    /\ UNCHANGED <<users, messages, msg_seq, sessions, session_service, issued, now, ticks, appendLog, redis_up>>

\* await database.add_messages_to_conversation(conversation_id, messages):
\* the call; its two statements are AppendInsert and AppendTouch.
CallAddMessages(r, conversation_id, prompt, text) ==
    /\ req[r].ep = "idle"
    /\ CanAppend
    /\ Set(r, [Idle EXCEPT !.ep = "add_messages_to_conversation", !.pc = "append",
                           !.conv = conversation_id,
                           !.batch = NewMessages(prompt_parts(prompt, <<>>), text)])
    /\ UNCHANGED <<users, conversations, messages, msg_seq, sessions, session_service, issued, now, ticks, origOwner, appendLog, redis_up>>

\* msgs = await database.get_conversation_messages(conversation_id)
CallGetMessages(r, conversation_id) ==
    /\ req[r].ep = "idle"
    /\ Set(r, [Idle EXCEPT !.ep = "get_conversation_messages", !.pc = "done",
                           !.conv = conversation_id, !.status = 200,
                           !.lines = ChatLines(get_conversation_messages(conversation_id))])
    /\ UNCHANGED <<users, conversations, messages, msg_seq, sessions, session_service, issued, now, ticks, origOwner, appendLog, redis_up>>

\* convs = await database.get_user_conversations(user_id, limit)
CallList(r, user_id, limit) ==
    /\ req[r].ep = "idle"
    /\ Set(r, IF LimitRaises(limit)
              THEN Raise([Idle EXCEPT !.ep = "get_user_conversations",
                                      !.user_id = user_id, !.count = limit], 500, "raised")
              ELSE [Idle EXCEPT !.ep = "get_user_conversations", !.pc = "done",
                           !.user_id = user_id, !.status = 200, !.count = limit,
                           !.listing = get_user_conversations(user_id, limit)])
    /\ UNCHANGED <<users, conversations, messages, msg_seq, sessions, session_service, issued, now, ticks, origOwner, appendLog, redis_up>>

\* A call of the session service takes time: the clock has moved on when it
\* returns. The calls are synchronous: slot r shows the latest call, rec,
\* and what it returned; an exception that leaves the call is the caller's 500.
ServiceCall(r, rec, out) ==
    /\ ticks < MaxCalls
    /\ sessions' = out.sessions
    /\ session_service' = out.service
    /\ Set(r, IF out.raised # "" THEN Raise(rec, 500, out.raised)
              ELSE [rec EXCEPT !.pc = "done", !.status = 200])
    /\ now' = now + 1
    /\ ticks' = ticks + 1

\* session_id = session_service.create_session(user_data, expires_in_days);
\* generate_session_id returns an id not returned before.
CallCreateSession(r, session_id, user_data, expires_in_days) ==
    /\ session_id \notin DOMAIN issued
    /\ LET out == create_session(session_id, user_data, expires_in_days)
       IN  /\ ServiceCall(r, [Idle EXCEPT !.ep = "create_session",
                                          !.session = <<session_id>>,
                                          !.user_data = <<user_data>>,
                                          !.count = expires_in_days,
                                          !.result = out.raised = ""], out)
           /\ issued' = IF out.raised # "" THEN issued
                        ELSE [s \in DOMAIN issued \cup {session_id} |->
                                IF s # session_id THEN issued[s]
                                ELSE IF user_data.id = <<>> THEN None ELSE user_data.id[1]]
    /\ UNCHANGED <<users, conversations, messages, msg_seq, redis_up, origOwner, appendLog>>

\* payload = session_service.get_session(session_id)
CallGetSession(r, session_id) ==
    /\ LET out == get_session(session_id)
       IN  ServiceCall(r, [Idle EXCEPT !.ep = "get_session", !.session = <<session_id>>,
                                      !.payload = out.result], out)
    /\ UNCHANGED <<users, conversations, messages, msg_seq, redis_up, issued, origOwner, appendLog>>

\* ok = session_service.delete_session(session_id)
CallDeleteSession(r, session_id) ==
    /\ LET out == delete_session(session_id)
       IN  ServiceCall(r, [Idle EXCEPT !.ep = "delete_session", !.session = <<session_id>>,
                                      !.result = out.result], out)
    /\ UNCHANGED <<users, conversations, messages, msg_seq, redis_up, issued, origOwner, appendLog>>

\* ok = session_service.refresh_session(session_id, expires_in_days)
CallRefreshSession(r, session_id, expires_in_days) ==
    /\ LET out == refresh_session(session_id, expires_in_days)
       IN  ServiceCall(r, [Idle EXCEPT !.ep = "refresh_session", !.session = <<session_id>>,
                                      !.count = expires_in_days,
                                      !.result = out.result], out)
    /\ UNCHANGED <<users, conversations, messages, msg_seq, redis_up, issued, origOwner, appendLog>>

\* user_id, is_authenticated = await get_authenticated_user_id(request)
CallGetAuthenticatedUserId(r, session_cookie) ==
    /\ LET out == get_authenticated_user_id(session_cookie)
       IN  ServiceCall(r, [Idle EXCEPT !.ep = "get_authenticated_user_id",
                                      !.session = session_cookie,
                                      !.user_id = out.user_id,
                                      !.is_anonymous = ~out.is_authenticated,
                                      !.result = out.is_authenticated], out)
    /\ UNCHANGED <<users, conversations, messages, msg_seq, redis_up, issued, origOwner, appendLog>>

\* The Redis server stops answering, and answers again.
RedisDown ==
    /\ redis_up
    /\ redis_up' = FALSE
    /\ UNCHANGED <<users, conversations, messages, msg_seq, sessions, session_service, issued, now, ticks, req, origOwner, appendLog>>

RedisUp ==
    /\ ~redis_up
    /\ redis_up' = TRUE
    /\ UNCHANGED <<users, conversations, messages, msg_seq, sessions, session_service, issued, now, ticks, req, origOwner, appendLog>>

\* Another writer leaves text under a session's key that is not a SessionData.
Corrupt(session_id) ==
    /\ redis_up
    /\ session_id \in DOMAIN sessions
    /\ model_validate_json(sessions[session_id].value) # <<>>
    /\ sessions' = [sessions EXCEPT ![session_id].value.json.id = <<>>]
    /\ UNCHANGED <<users, conversations, messages, msg_seq, session_service, redis_up, issued, now, ticks, req, origOwner, appendLog>>

\* Time passes between two calls.
Pass(days) ==
    /\ ticks < MaxCalls
    /\ now' = now + timedelta(days)
    /\ ticks' = ticks + 1
    /\ UNCHANGED <<users, conversations, messages, msg_seq, sessions, session_service, redis_up, issued, req, origOwner, appendLog>>

SessionCookies == {<<>>} \cup {<<s>> : s \in SessionIds}
AnonCookies == {Null} \cup AnonIds

\* The chat service: two clients reading and writing conversations and
\* migrating them, and a user who logs in and out.
Next ==
    \/ \E r \in Reqs : ArriveAny(r, "get_chat", SessionCookies, {a1, a2}, {"c1"})
    \/ \E r \in Reqs : ArriveAny(r, "post_chat", SessionCookies, {a1, a2}, {"c1"})
    \/ \E r \in Reqs, s \in SessionCookies, a \in {Null, a1, a2} : MigrateArrive(r, s, a)
    \/ \E r \in Reqs :
          \/ SelectUser(r) \/ InsertUserStep(r)
          \/ Owns(r) \/ Read(r)
          \/ Exists(r) \/ Echo(r) \/ Create(r) \/ History(r) \/ Run(r)
          \/ AppendInsert(r) \/ AppendTouch(r)
          \/ MigrateTransfer(r)
          \/ Finish(r)
    \/ \E g \in AuthIds, s \in SessionIds : Login(g, s)
    \/ \E s \in SessionIds : Logout(s)

Spec == Init /\ [][Next]_vars

\* Identity resolution: clients with and without cookies, sessions that are
\* deleted or expire.
NextIdentity ==
    \/ \E r \in Reqs : ArriveAny(r, "get_conversations", SessionCookies, AnonCookies, {""})
    \/ \E r \in Reqs : ArriveAny(r, "get_chat", SessionCookies, AnonCookies, {"c1"})
    \/ \E r \in Reqs : SelectUser(r) \/ InsertUserStep(r) \/ List(r) \/ Owns(r) \/ Finish(r)
    \/ \E g \in AuthIds, s \in SessionIds : Login(g, s)
    \/ \E s \in SessionIds : Logout(s)
    \/ Tick(ExpiresInDays + 1)

SpecIdentity == Init /\ [][NextIdentity]_vars

\* The conversation store under any sequence of calls of its methods: one
\* caller makes the calls of a single statement, the other the calls of several,
\* so that every statement of the first can fall between two of the second.
StoreUsers == {a1, b1, g1}

\* Every batch a caller appends is a new one: its prompt differs from the
\* prompt of the batch before it.
BatchPrompt == <<"p1", "p2", "p3">>[(msg_seq % 3) + 1]

NextStore ==
    \/ \E u \in StoreUsers : CallGetOrCreateUser(2, u)
    \/ \E c \in ConvIds, u \in StoreUsers : CallCreate(1, c, u)
    \/ \E u \in StoreUsers, v \in StoreUsers : CallTransfer(1, u, v)
    \/ \E c \in ConvIds, u \in StoreUsers : CallUpdateOwner(1, c, u)
    \/ \E c \in ConvIds : CallAddMessages(2, c, BatchPrompt, "m1")
    \/ \E c \in ConvIds : CallGetMessages(1, c)
    \/ \E r \in Reqs : SelectUser(r) \/ InsertUserStep(r) \/ AppendInsert(r)
                        \/ AppendTouch(r) \/ Finish(r)

SpecStore == Init /\ [][NextStore]_vars

\* The listing: conversations of two users are created, written to, handed
\* over and listed while the clock advances.
ListUsers == {a1, b1}
ListLimits == {1, DefaultLimit}

\* The limits a caller may pass: negative, zero, in range, very large.
LargeLimit == 1000000
AnyLimits == {-1, 0, LargeLimit} \cup ListLimits

NextListing ==
    \/ \E u \in ListUsers : CallGetOrCreateUser(2, u)
    \/ \E c \in ConvIds, u \in ListUsers : CallCreate(1, c, u)
    \/ \E u \in ListUsers : \E v \in ListUsers \ {u} : CallTransfer(1, u, v)
    \/ \E c \in ConvIds : CallAddMessages(2, c, BatchPrompt, "m1")
    \/ \E u \in ListUsers, limit \in ListLimits : CallList(1, u, limit)
    \/ \E limit \in AnyLimits \ ListLimits : CallList(1, a1, limit)
    \/ \E r \in Reqs : SelectUser(r) \/ InsertUserStep(r) \/ AppendInsert(r) \/ AppendTouch(r) \/ Finish(r)
    \/ Tick(1)

SpecListing == Init /\ [][NextListing]_vars

\* The session service: sessions are created, read, refreshed and deleted
\* while time passes, Redis comes and goes and a record gets corrupted.
ServiceSessionIds == {"s1", "s2"}
UserDatas ==
    {UserData(g1), [UserData(g1) EXCEPT !.picture = <<"u">>]}
        \cup {[UserData(g1) EXCEPT ![k] = <<>>] : k \in RequiredFields}
Lifetimes == {0, ExpiresInDays}

NextSession ==
    \/ \E s \in ServiceSessionIds, d \in UserDatas, n \in Lifetimes : CallCreateSession(1, s, d, n)
    \/ \E s \in ServiceSessionIds : CallGetSession(2, s)
    \/ \E s \in ServiceSessionIds : CallDeleteSession(1, s)
    \/ \E s \in ServiceSessionIds : CallRefreshSession(1, s, ExpiresInDays)
    \/ \E s \in ServiceSessionIds : CallGetAuthenticatedUserId(2, <<s>>)
    \/ RedisDown \/ RedisUp
    \/ \E s \in ServiceSessionIds : Corrupt(s)
    \/ Pass(ExpiresInDays + 1)

SpecSession == Init /\ [][NextSession]_vars

\* Turns of a chat: anonymous callers post to one conversation while the
\* clock advances.
NextTurn ==
    \/ \E r \in Reqs : ArriveAny(r, "post_chat", {<<>>}, {a1, b1}, {"c1"})
    \/ \E r \in Reqs :
          \/ SelectUser(r) \/ InsertUserStep(r)
          \/ Exists(r) \/ Owns(r) \/ Echo(r) \/ Create(r) \/ History(r) \/ Run(r)
          \/ AppendInsert(r) \/ AppendTouch(r)
          \/ Disconnect(r)
          \/ Finish(r)
    \/ Tick(1)

SpecTurn == Init /\ [][NextTurn]_vars

\* Attachments: items that validate, with a MIME type in upper case, of a
\* document, of audio, of video and of none of these, and items that do not
\* validate (a key is missing, the URL is not one of http, the type is a
\* number, the item is no dict).
Name == <<JsonStr(<<"file">>)>>
Png == Dict(<<JsonStr(<<"https", "://", "h", "/a.png">>)>>, <<JsonStr(<<"IMAGE", "/", "PNG">>)>>, Name)
Pdf == Dict(<<JsonStr(<<"HTTPS", "://", "h">>)>>, <<JsonStr(<<"application", "/", "pdf">>)>>, Name)
Mp3 == Dict(<<JsonStr(<<"https", "://", "h", "/a.mp3">>)>>, <<JsonStr(<<"audio", "/", "mpeg">>)>>, Name)
Mp4 == Dict(<<JsonStr(<<"https", "://", "h", "/a.mp4">>)>>, <<JsonStr(<<"video", "/", "mp4">>)>>, Name)
Zip == Dict(<<JsonStr(<<"https", "://", "h", "/a.zip">>)>>, <<JsonStr(<<"application", "/", "zip">>)>>, Name)
NoUrlKey == Dict(<<>>, <<JsonStr(<<"image", "/", "png">>)>>, Name)
BadUrl == Dict(<<JsonStr(<<"ftp", "://", "h", "/a.png">>)>>, <<JsonStr(<<"image", "/", "png">>)>>, Name)
IntType == Dict(<<JsonStr(<<"https", "://", "h", "/a.png">>)>>, <<JsonInt(<<"5">>)>>, Name)

\* The values of the form field: absent, empty, no JSON, nested too deep, a
\* JSON value that is no list, and lists.
AttachmentFields ==
    { NoAttachments, Field("empty", "null", <<>>), Field("invalid", "null", <<>>),
      Field("deep", "list", <<>>), Field("json", "dict", <<>>), Field("json", "list", <<>>),
      Field("json", "list", <<Png>>),
      Field("json", "list", <<Png, Pdf>>),
      Field("json", "list", <<Pdf, Png>>),
      Field("json", "list", <<NoUrlKey, Png>>),
      Field("json", "list", <<Png, BadUrl, Pdf>>),
      Field("json", "list", <<Mp3, Png, Mp4>>),
      Field("json", "list", <<NoDict, IntType, Zip>>) }

\* Turns with attachments: an anonymous caller posts to a conversation, one
\* turn at a time, and reads it back, also while a turn is under way.
NextAttach ==
    \/ \E f \in AttachmentFields : ArriveWithAttachments(1, a1, "c1", f)
    \/ \E r \in Reqs : ArriveAny(r, "get_chat", {<<>>}, {a1}, {"c1"})
    \/ \E r \in Reqs :
          \/ SelectUser(r) \/ InsertUserStep(r)
          \/ Exists(r) \/ Owns(r) \/ Echo(r) \/ Create(r) \/ History(r) \/ Run(r)
          \/ AppendInsert(r) \/ AppendTouch(r)
          \/ Read(r)
          \/ Finish(r)

SpecAttach == Init /\ [][NextAttach]_vars

\* Two provider users who log in, chat and migrate, and clients whose
\* anonymous_user_id cookie carries the id of a provider user or of an
\* anonymous one.
g2 == <<"g","2">>
ProviderIds == {g1, g2}
CarriedIds == {g1, a1}

NextCarried ==
    \/ \E g \in ProviderIds, s \in ServiceSessionIds : Login(g, s)
    \/ ArriveAny(1, "post_chat", {<<s>> : s \in ServiceSessionIds}, {Null}, {"c1"})
    \/ \E ep \in {"get_conversations", "get_chat", "post_chat"} :
          ArriveAny(1, ep, {<<>>}, CarriedIds, {"c1"})
    \/ \E s \in ServiceSessionIds, a \in CarriedIds : MigrateArrive(1, <<s>>, a)
    \/ SelectUser(1) \/ InsertUserStep(1) \/ List(1)
    \/ Owns(1) \/ Read(1)
    \/ Exists(1) \/ Echo(1) \/ Create(1) \/ History(1) \/ Run(1)
    \/ AppendInsert(1) \/ AppendTouch(1)
    \/ MigrateTransfer(1)
    \/ Finish(1)

SpecCarried == Init /\ [][NextCarried]_vars

-----------------------------------------------------------------------------
(* Properties of the chat service, checked under Spec *)

\* C1: a conversation created by u1 and not transferred since is owned by no
\* other user u2, and GET /chat/{c} requested as such a user answers 404 and
\* returns none of the conversation's messages.
C1_OnlyTheCreatorOwns ==
    \A c \in ConvIds :
        origOwner[c] # None =>
            /\ \A u2 \in UserIds \ {origOwner[c]} : ~user_owns_conversation(c, u2)
            /\ \A r \in Reqs :
                  ( /\ req[r].ep = "get_chat" /\ req[r].pc = "done"
                    /\ req[r].conv = c
                    /\ req[r].user_id # origOwner[c]
                    /\ req[r].user_id \in UserIdsIn(users) )
                  => req[r].status = 404 /\ req[r].lines = <<>>

\* C1, its case: another user has asked for a conversation that has messages
\* and is still owned by its creator, and has been answered.
C1_Witness ==
    \E r \in Reqs :
        /\ req[r].ep = "get_chat" /\ req[r].pc = "done" /\ req[r].checked = "other"
        /\ origOwner[req[r].conv] \notin {None, req[r].user_id}
        /\ req[r].user_id \in UserIdsIn(users)
        /\ get_conversation_messages(req[r].conv) # <<>>

\* C2: on the same chat endpoint, a caller who found the conversation owned by
\* another user and a caller who found it absent have received the same.
C2_Indistinguishable ==
    \A r1 \in Reqs, r2 \in Reqs :
        ( /\ req[r1].pc = "done" /\ req[r2].pc = "done"
          /\ req[r1].ep \in {"get_chat", "post_chat"} /\ req[r2].ep = req[r1].ep
          /\ req[r1].checked = "other" /\ req[r2].checked = "absent" )
        => /\ req[r1].status = req[r2].status
           /\ req[r1].detail = req[r2].detail

\* C4: a request has read or extended a conversation's history only after its
\* own ownership check returned true, or after its own existence check returned
\* false and it created the conversation for its caller; the ownership query
\* answers false for an id that does not exist.
C4_GateBeforeHistory ==
    /\ \A r \in Reqs :
          (req[r].did_read \/ req[r].did_append) =>
              \/ req[r].checked = "own"
              \/ req[r].checked = "absent" /\ ~req[r].exists /\ req[r].created
    /\ \A c \in ConvIds, u \in UserIds :
          ~conversation_exists(c) => ~user_owns_conversation(c, u)

\* C4, its cases: a request that created the conversation has appended to it,
\* and a request that passed the ownership check has read it.
C4_Witness ==
    /\ \E r \in Reqs : req[r].ep = "post_chat" /\ req[r].did_append /\ req[r].created
    /\ \E r \in Reqs : req[r].ep = "get_chat" /\ req[r].did_read /\ req[r].checked = "own"
                        /\ req[r].lines # <<>>

-----------------------------------------------------------------------------
(* Properties of the conversation store, checked under SpecStore *)

\* The step of request r is a transfer of ownership: a direct call of
\* transfer_conversations_to_user or update_conversation_owner, or the
\* transfer of migrate_conversations.
IsTransferStep(r) ==
    \/ /\ req[r].ep = "idle"
       /\ req'[r].ep \in {"transfer_conversations_to_user", "update_conversation_owner"}
    \/ /\ req[r].ep = "migrate" /\ req[r].pc = "transfer"
       /\ req'[r].pc = "done"

\* C3: every conversation that exists has exactly one owner, a user id, and
\* the owner of an existing conversation changes only in a step of
\* transfer_conversations_to_user or update_conversation_owner.
C3_OneOwnerChangedOnlyByTransfer ==
    /\ [](\A c \in ConvIds :
            conversation_exists(c) =>
                /\ Cardinality({x \in conversations : x.id = c}) = 1
                /\ get_conversation_owner(c) \subseteq UserIds)
    /\ [][\A c \in ConvIds :
            (conversation_exists(c) /\ get_conversation_owner(c)' # get_conversation_owner(c))
                => \E r \in Reqs : IsTransferStep(r)]_vars

\* C3, its cases: a conversation has changed hands, and a create on the id of
\* a conversation of another user has been refused.
C3_Witness ==
    /\ \E c \in ConvIds : conversation_exists(c) /\ origOwner[c] = None
    /\ \E r \in Reqs :
          /\ req[r].ep = "create_conversation_with_id" /\ req[r].status = 500
          /\ req[r].user_id \in UserIdsIn(users)
          /\ conversation_exists(req[r].conv)
          /\ ~user_owns_conversation(req[r].conv, req[r].user_id)

\* The step of request r is a call transfer_conversations_to_user(A, B) that returns.
TransferReturns(r, A, B) ==
    /\ req[r].ep = "idle"
    /\ req'[r].ep = "transfer_conversations_to_user"
    /\ req'[r].anon = A /\ req'[r].user_id = B
    /\ req'[r].status = 200

\* What C5 promises of a call that returned n.
TransferPost(A, B, n) ==
    LET before == {c \in conversations : c.user_id = A /\ c.is_active}
    IN  /\ get_user_conversations(A, DefaultLimit)' = <<>>
        /\ \A c \in before : \E d \in conversations' : d.id = c.id /\ d.user_id = B
        /\ n = Cardinality(before)
        /\ \A c \in conversations : c.user_id # A => c \in conversations'

\* C5 as stated: after transfer_conversations_to_user(A, B) returns n, A lists
\* no conversation, every conversation A owned is B's, n is the number of rows
\* moved and the conversations of other users are unchanged.
C5_TransferMovesAll ==
    [][\A r \in Reqs, A \in UserIds, B \in UserIds :
            TransferReturns(r, A, B) => TransferPost(A, B, req'[r].count)]_vars

\* C5 for two different users: after transfer_conversations_to_user(A, B)
\* with A # B returns n, A lists no conversation, every conversation A owned is
\* B's, n is the number of rows moved and the conversations of other users are
\* unchanged.
C5_TransferMovesAllToAnother ==
    [][\A r \in Reqs, A \in UserIds, B \in UserIds :
            (A # B /\ TransferReturns(r, A, B)) => TransferPost(A, B, req'[r].count)]_vars

\* C5, its case: a transfer between two users has moved a conversation while a
\* third user owned another.
C5_Witness ==
    \E r \in Reqs :
        /\ req[r].ep = "transfer_conversations_to_user" /\ req[r].status = 200
        /\ req[r].anon # req[r].user_id
        /\ req[r].count >= 1
        /\ \E c \in conversations : c.user_id \notin {req[r].anon, req[r].user_id}
        /\ \E c \in conversations : c.user_id = req[r].user_id /\ origOwner[c.id] = None

RECURSIVE Flatten(_)
Flatten(batches) ==
    IF batches = <<>> THEN <<>> ELSE Head(batches) \o Flatten(Tail(batches))

\* C10: the history of a conversation is the concatenation of the batches
\* appended to it, in the order of the appends, and holds no message of
\* another conversation.
C10_HistoryIsTheAppends ==
    \A c \in ConvIds : get_conversation_messages(c) = Flatten(appendLog[c])

\* C10, its cases: two different batches appended to one conversation and
\* read back, and batches appended to two conversations.
C10_Witness ==
    \E r \in Reqs, c \in ConvIds :
        /\ Len(appendLog[c]) = 2 /\ appendLog[c][1] # appendLog[c][2]
        /\ req[r].ep = "get_conversation_messages" /\ req[r].conv = c
        /\ req[r].lines = ChatLines(Flatten(appendLog[c]))

\* The batches stored for a conversation, in the order of their ids.
RECURSIVE Batches(_)
Batches(rows) ==
    IF rows = <<>> THEN <<>>
    ELSE <<ValidateJson(Head(rows).message_list)>> \o Batches(Tail(rows))

StoredBatches(msgs, c) == Batches(OrderById({m \in msgs : m.conversation_id = c}))

IsPrefix(s, t) == Len(s) <= Len(t) /\ \A i \in 1..Len(s) : s[i] = t[i]

\* C11: the message history is append-only: over every step of a chat
\* request, a migration or a login, the batches stored for a conversation
\* before the step are a prefix, unchanged and in the same order, of the
\* batches stored after it.
C11_AppendOnly ==
    [][\A c \in ConvIds : IsPrefix(StoredBatches(messages, c), StoredBatches(messages', c))]_vars

\* C11, its case: a chat request has appended a second batch to a conversation
\* that already held one.
C11_Witness ==
    \E r \in Reqs :
        /\ req[r].ep = "post_chat" /\ req[r].did_append
        /\ Len(StoredBatches(messages, req[r].conv)) = 2
        /\ StoredBatches(messages, req[r].conv)[2] = req[r].batch
        /\ StoredBatches(messages, req[r].conv)[1] # req[r].batch

\* The active conversations a user owns.
Owned(user_id) == {c \in conversations : c.user_id = user_id /\ c.is_active}

\* A listing holds only conversations of the user, each once, as many as the
\* user owns up to the limit, the latest updated first, and leaves out none
\* that was updated after one it holds.
ListingIsRight(user_id, limit, listing) ==
    /\ Len(listing) = IF Cardinality(Owned(user_id)) < limit
                      THEN Cardinality(Owned(user_id)) ELSE limit
    /\ \A i \in DOMAIN listing :
          \E c \in Owned(user_id) :
              /\ c.id = listing[i].id /\ c.title = listing[i].title
              /\ c.updated_at = listing[i].updated_at
              /\ listing[i].message_count = MessageCount(c.id)
    /\ \A i \in DOMAIN listing, j \in DOMAIN listing :
          i < j => listing[i].id # listing[j].id /\ listing[i].updated_at >= listing[j].updated_at
    /\ \A c \in Owned(user_id) :
          (\A i \in DOMAIN listing : listing[i].id # c.id)
              => \A i \in DOMAIN listing : listing[i].updated_at >= c.updated_at

\* The second statement of add_messages_to_conversation runs for request r.
IsTouchStep(r) == req[r].pc = "touch" /\ req'[r].pc = "done"

\* After the step, conversation_id is the first of its owner's listing if
\* no other conversation of the owner carries the same updated_at.
ListedFirstAfter(conversation_id) ==
    \A c \in conversations' :
        c.id = conversation_id =>
            /\ c.updated_at = now
            /\ \A limit \in ListLimits :
                  (\A o \in Owned(c.user_id)' : o.id # c.id => o.updated_at # c.updated_at)
                      => get_user_conversations(c.user_id, limit)'[1].id = conversation_id

\* C12: get_user_conversations(u) returns exactly the active conversations
\* owned by u, up to the limit, in non-increasing order of updated_at; and
\* when add_messages_to_conversation completes on c its updated_at is bumped
\* and c is listed first for its owner (ahead of every conversation updated
\* earlier), which by the order lasts until another conversation of the
\* owner is updated.
C12_ListedLatestFirst ==
    /\ [](\A u \in ListUsers, limit \in ListLimits :
            ListingIsRight(u, limit, get_user_conversations(u, limit)))
    /\ [][\A r \in Reqs : IsTouchStep(r) => ListedFirstAfter(req[r].conv)]_vars

\* C12, its case: a user owns two conversations, the one listed first was
\* updated later than the other by a completed turn, and a listing cut to
\* one row was returned holding it.
C12_Witness ==
    \E r \in Reqs :
        /\ req[r].ep = "get_user_conversations" /\ req[r].count = 1
        /\ Len(req[r].listing) = 1
        /\ req[r].listing = get_user_conversations(req[r].user_id, 1)
        /\ req[r].listing[1].message_count >= 1
        /\ Cardinality(Owned(req[r].user_id)) = 2
        /\ \A c \in Owned(req[r].user_id) :
              c.id # req[r].listing[1].id => c.updated_at < req[r].listing[1].updated_at

\* Request r is a POST /chat/{id} whose response stream has started.
Streaming(r) == req[r].ep = "post_chat" /\ req[r].stream # ""

\* Request r of POST /chat/{id} is at or past the topic call, the creation,
\* the history load or the model call.
PastEcho(r) ==
    /\ req[r].ep = "post_chat"
    /\ \/ req[r].pc \in {"create", "history", "run", "append", "touch"}
       \/ req[r].created \/ req[r].did_read \/ req[r].did_append

\* C18: in every POST /chat/{id} response stream the first line is the echo
\* of the caller's prompt with role user, and it is in the stream before the
\* topic call, the creation, the history load and the model call; the lines
\* after it are the model's texts in the order the model produced them (all
\* of them once the model call has completed).
C18_EchoFirstThenModelInOrder ==
    \A r \in Reqs :
        /\ PastEcho(r) => Streaming(r)
        /\ Streaming(r) =>
              /\ Len(req[r].lines) >= 1
              /\ req[r].lines[1] = [role |-> "user", content |-> req[r].prompt]
              /\ ~req[r].did_read => Len(req[r].lines) = 1
              /\ \E text \in ModelTexts :
                    \E k \in 0..Len(Stream(text)) :
                        /\ Len(req[r].lines) = 1 + k
                        /\ \A i \in 1..k :
                              req[r].lines[1 + i] = [role |-> "model", content |-> Stream(text)[i]]
                        /\ (req[r].pc \in {"append", "touch"} \/ req[r].did_append)
                              => k = Len(Stream(text))

\* C18, its cases: a stream that closed after the echo and every text of the
\* model, and a stream that broke after the echo and the first text.
C18_Witness ==
    /\ \E r \in Reqs :
          /\ Streaming(r) /\ req[r].stream = "closed" /\ req[r].created
          /\ Len(req[r].lines) = 3 /\ req[r].lines[2] # req[r].lines[3]
    /\ \E r \in Reqs :
          /\ Streaming(r) /\ req[r].stream = "error" /\ req[r].did_read
          /\ Len(req[r].lines) = 2

\* Request r of POST /chat/{id} takes this step.
PostChatStep(r) == req[r].ep = "post_chat" /\ req'[r] # req[r]

\* The stream of request r holds the echo and every text of a completed
\* model call, whose messages are the batch of r.
TurnComplete(rec) ==
    \E text \in ModelTexts :
        /\ rec.lines = <<UserLine(rec.prompt)>> \o StreamLines(Stream(text))
        /\ rec.batch = NewMessages(PromptPartsOf(rec), text)

\* C19: a POST /chat/{id} request appends exactly one batch to its
\* conversation, the messages of its turn, if its model call completes, and
\* none otherwise (the topic call, the history read, the model call or the
\* INSERT itself failed); the append comes only after every model line of the turn is in
\* the stream, and it is followed by the bump of the conversation's
\* updated_at, with which the stream closes.
C19_OneBatchAfterTheStream ==
    /\ [](\A r \in Reqs : req[r].ep = "post_chat" =>
            /\ req[r].stream = "closed" => req[r].did_append
            /\ req[r].stream = "error" => ~req[r].did_append
            /\ req[r].pc = "touch" <=> (req[r].did_append /\ req[r].stream = "open")
            /\ req[r].pc = "append" => ~req[r].did_append
            /\ (req[r].pc = "append" \/ req[r].did_append) => TurnComplete(req[r]))
    /\ [][\A r \in Reqs : PostChatStep(r) =>
            /\ req[r].pc = "append" =>
                  \/ /\ req'[r].stream = "error" /\ ~req'[r].did_append
                     /\ messages' = messages
                  \/ /\ req'[r].did_append /\ req'[r].pc = "touch"
                     /\ \E m \in messages' \ messages :
                           /\ messages' = messages \cup {m}
                           /\ m.conversation_id = req[r].conv
                           /\ ValidateJson(m.message_list) = req[r].batch
            /\ req[r].pc # "append" =>
                  /\ messages' = messages
                  /\ req'[r].did_append = req[r].did_append \/ req'[r].ep # "post_chat"
            /\ req[r].pc = "touch" =>
                  /\ req'[r].stream = "closed"
                  /\ \E c \in conversations' : c.id = req[r].conv /\ c.updated_at = now]_vars

\* C19, its cases: a turn has closed its stream after appending its batch to
\* a conversation created earlier, whose updated_at it moved forward; another
\* turn broke during the model call, after a line, and appended nothing.
C19_Witness ==
    /\ \E r \in Reqs :
          /\ req[r].ep = "post_chat" /\ req[r].stream = "closed" /\ ~req[r].created
          /\ \E c \in conversations : c.id = req[r].conv /\ c.updated_at = now /\ now > 0
          /\ MessageCount(req[r].conv) = 1
    /\ \E r \in Reqs :
          /\ req[r].ep = "post_chat" /\ req[r].stream = "error" /\ Len(req[r].lines) = 2

\* C20: if the topic call fails for a conversation id that does not exist
\* yet, the request fails and creates no conversation row: a step of POST
\* /chat/{id} from the point of the topic call either breaks the stream and
\* leaves the conversations as they were, or goes on having inserted at most
\* the row of its id with the title of its completed topic call; no other
\* step of the request adds a row, and every row carries such a title.
C20_NoRowWithoutTopic ==
    /\ [](\A c \in conversations : \E prompt \in Prompts : c.title = Topic(prompt))
    /\ [][\A r \in Reqs : PostChatStep(r) =>
            /\ req[r].pc = "create" =>
                  \/ req'[r].stream = "error" /\ conversations' = conversations
                  \/ /\ req'[r].pc = "history" /\ req'[r].created
                     /\ ~conversation_exists(req[r].conv)
                     /\ conversations' = conversations \cup
                            {ConvRow(req[r].conv, req[r].user_id, Topic(req[r].prompt), now)}
            /\ req[r].pc # "create" =>
                  {c.id : c \in conversations'} = {c.id : c \in conversations}]_vars

\* C20, its case: the topic call of a request failed for an id that did not
\* exist; its stream broke after the echo and no row of the id exists.
C20_Witness ==
    \E r \in Reqs :
        /\ req[r].ep = "post_chat" /\ req[r].checked = "absent"
        /\ req[r].stream = "error" /\ req[r].lines = <<UserLine(req[r].prompt)>>
        /\ ~req[r].created /\ ~req[r].did_read
        /\ ~conversation_exists(req[r].conv)

\* Request r of POST /chat/{id} has sent every line of its turn and is about to
\* append, or has come from there.
Persisting(rec) == rec.ep = "post_chat" /\ TurnComplete(rec)

\* C21: a failure of the append of the turn's batch is not swallowed: the
\* step of the INSERT either stores the batch and goes on to the closing
\* UPDATE, or ends the stream as broken with nothing stored; and a stream
\* that closed as a normal end of stream belongs to a request whose batch is
\* in the table.
C21_PersistFailureBreaksTheStream ==
    /\ [](\A r \in Reqs : (req[r].ep = "post_chat" /\ req[r].stream = "closed") =>
            /\ req[r].did_append
            /\ \E m \in messages :
                  m.conversation_id = req[r].conv /\ ValidateJson(m.message_list) = req[r].batch)
    /\ [][\A r \in Reqs : (PostChatStep(r) /\ req[r].pc = "append") =>
            \/ req'[r].pc = "touch" /\ req'[r].stream = "open" /\ messages' # messages
            \/ /\ req'[r].pc = "done" /\ req'[r].stream = "error"
               /\ messages' = messages
               /\ req'[r].lines = req[r].lines]_vars

\* C21, its case: the append of a turn failed after every line of the turn
\* was sent; the stream is broken and the conversation holds no batch.
C21_Witness ==
    \E r \in Reqs :
        /\ Persisting(req[r]) /\ req[r].pc = "done" /\ req[r].stream = "error"
        /\ ~req[r].did_append
        /\ conversation_exists(req[r].conv) /\ MessageCount(req[r].conv) = 0

\* C22: when the client disconnects mid-stream no further model output is
\* read, and the append is skipped only if no model output had been
\* generated: a request that lost its client after at least one model line
\* goes on to append what it has. (The first part holds: the lines of a
\* request whose client is gone never grow. The second does not.)
C22_DisconnectPersistsPartialTurn ==
    \A r \in Reqs :
        (req[r].ep = "post_chat" /\ req[r].stream = "gone" /\ Len(req[r].lines) >= 2)
            => (req[r].pc \in {"append", "touch"} \/ req[r].did_append)

\* Requests r and q are turns of two different users on the same id, and
\* each found at its check that the id did not exist.
RaceForId(r, q) ==
    /\ r # q
    /\ req[r].ep = "post_chat" /\ req[q].ep = "post_chat"
    /\ req[r].conv = req[q].conv /\ req[r].user_id # req[q].user_id
    /\ req[r].checked = "absent" /\ req[q].checked = "absent"

\* C25: create_conversation_with_id fails when the id exists and leaves the
\* row as it is; so of two turns of different users that both found the id
\* missing at most one creates it: once the row exists exactly one of the two
\* is its creator and owner, and the other has neither read the history
\* nor appended, and will not (its stream breaks at the INSERT).
C25_OneCreatorPerId ==
    /\ [](\A r \in Reqs, q \in Reqs : RaceForId(r, q) =>
            /\ ~(req[r].created /\ req[q].created)
            /\ conversation_exists(req[r].conv) => (req[r].created \/ req[q].created)
            /\ req[r].created => user_owns_conversation(req[r].conv, req[r].user_id)
            /\ ~req[r].created => ~req[r].did_read /\ ~req[r].did_append
            /\ (~req[r].created /\ req[q].created) => req[r].pc \in {"echo", "create", "done"})
    /\ [][\A r \in Reqs :
            (PostChatStep(r) /\ req[r].pc = "create" /\ conversation_exists(req[r].conv)) =>
                /\ conversations' = conversations
                /\ req'[r].pc = "done" /\ req'[r].stream = "error" /\ ~req'[r].created]_vars

\* C25, its case: two users posted to an id that did not exist; one created
\* the conversation and stored its turn, the stream of the other broke after
\* the echo, with nothing read or stored, and the row is the creator's.
C25_Witness ==
    \E r \in Reqs, q \in Reqs :
        /\ RaceForId(r, q)
        /\ req[r].created /\ req[r].did_append /\ req[r].stream = "closed"
        /\ req[q].stream = "error" /\ req[q].lines = <<UserLine(req[q].prompt)>>
        /\ ~req[q].created /\ ~req[q].did_read /\ ~req[q].did_append
        /\ \A c \in conversations : c.id = req[r].conv => c.user_id = req[r].user_id
        /\ \A m \in messages : ValidateJson(m.message_list) = req[r].batch

\* C26: when two turns on one existing conversation run concurrently, the
\* batch of each completed turn is stored once and whole, as a row of its own
\* (the stored batches are the appended ones, none merged, split or lost),
\* every append adds its batch after the batches stored before it, and
\* get_conversation_messages returns the batches in the order in which the
\* appends were executed, whatever the order in which the turns arrived.
C26_BatchesKeptInAppendOrder ==
    /\ [](\A c \in ConvIds :
            /\ StoredBatches(messages, c) = appendLog[c]
            /\ Cardinality({m \in messages : m.conversation_id = c}) = Len(appendLog[c])
            /\ get_conversation_messages(c) = Flatten(StoredBatches(messages, c)))
    /\ [][\A r \in Reqs :
            (req[r].pc = "append" /\ req'[r].did_append) =>
                /\ StoredBatches(messages', req[r].conv)
                      = Append(StoredBatches(messages, req[r].conv), req[r].batch)
                /\ \A c \in ConvIds \ {req[r].conv} :
                      StoredBatches(messages', c) = StoredBatches(messages, c)]_vars

\* C26, its case: two turns on a conversation that existed when each of them
\* arrived were in flight together; the turn on slot 1 arrived first (no
\* other request was in flight), the turn on slot 2 appended first, and the
\* history holds the batch of slot 2 and then the batch of slot 1, each whole.
C26_Witness ==
    /\ req[1].ep = "post_chat" /\ req[2].ep = "post_chat"
    /\ req[1].conv = req[2].conv
    /\ req[1].exists /\ req[2].exists
    /\ req[1].alone /\ ~req[2].alone
    /\ req[1].did_append /\ req[2].did_append
    /\ req[1].batch # req[2].batch
    /\ appendLog[req[1].conv] = <<req[2].batch, req[1].batch>>
    /\ get_conversation_messages(req[1].conv) = req[2].batch \o req[1].batch

\* The limit the listing is to apply: the one given if it is in range, the
\* default otherwise.
Clamped(limit) == IF limit >= 1 /\ limit <= DefaultLimit THEN limit ELSE DefaultLimit

\* C24: get_user_conversations(u, limit) never fails, whatever integer the
\* limit is: a limit out of range is clamped (default 50) and the listing
\* returned holds the user's conversations up to the clamped limit.
C24_LimitIsClamped ==
    \A r \in Reqs :
        (req[r].ep = "get_user_conversations" /\ req[r].pc = "done") =>
            /\ req[r].status = 200
            /\ Len(req[r].listing) =
                  IF Cardinality(Owned(req[r].user_id)) < Clamped(req[r].count)
                  THEN Cardinality(Owned(req[r].user_id)) ELSE Clamped(req[r].count)

-----------------------------------------------------------------------------
(* Properties of the attachments, checked under SpecAttach *)

\* What an item of the list is to add to the prompt: the image and the
\* document, with the URL as the URL type writes it; nothing for the others.
ExpectedPart(item) ==
    IF item = Png THEN <<[kind |-> "image-url", value |-> <<"https", "://", "h", "/a.png">>]>>
    ELSE IF item = Pdf THEN <<[kind |-> "document-url", value |-> <<"https", "://", "h", "/">>]>>
    ELSE <<>>

RECURSIVE ExpectedParts(_)
ExpectedParts(items) ==
    IF items = <<>> THEN <<>> ELSE ExpectedPart(Head(items)) \o ExpectedParts(Tail(items))

\* The prompt the model was given in the turn of rec, as its batch records it.
SentToModel(rec) == rec.batch[1].parts[1].content

\* The turns go ahead for the fields in ok: the handler raises nothing for
\* them, and the prompt the model is given is the text and then the parts of
\* the well-formed image and document items, in the order of the list.
GoesAhead(ok) ==
    \A r \in Reqs : (req[r].ep = "post_chat" /\ req[r].attachments \in ok) =>
        /\ req[r].status # 500
        /\ req[r].batch # <<>> =>
              SentToModel(req[r]) =
                  <<[kind |-> "str", value |-> <<req[r].prompt>>]>>
                      \o ExpectedParts(req[r].attachments.items)

\* The step of the handler from the ownership check opens the stream.
OpensTheStream(ok) ==
    \A r \in Reqs :
        (req[r].pc = "echo" /\ req'[r] # req[r] /\ req[r].attachments \in ok)
            => req'[r].stream = "open" /\ req'[r].status = 200

WithinDepth == {f \in AttachmentFields : f.text # "deep"}

C27_ReadBackSucceeds ==
    \A r \in Reqs :
        (req[r].ep = "get_chat" /\ req[r].did_read /\ appendLog[req[r].conv] # <<>>) =>
            /\ req[r].status = 200
            /\ Len(req[r].lines) = 2 * Len(appendLog[req[r].conv])
            /\ \A i \in 1..Len(req[r].lines) :
                  req[r].lines[i].role = IF i % 2 = 1 THEN "user" ELSE "model"

-----------------------------------------------------------------------------
(* Properties of the session service, checked under SpecSession *)

\* Slot r shows a call of the method that has just returned.
Returned(r, method) == req'[r] # req[r] /\ req'[r].ep = method /\ req'[r].status = 200

\* The store a call that has just been made worked on, before and after it:
\* Redis, or the memory store when the service has fallen back.
StoreBefore == IF session_service'.use_redis THEN sessions ELSE session_service.memory_store
StoreAfter == IF session_service'.use_redis THEN sessions' ELSE session_service'.memory_store

\* A stored record is a session's data that has not expired.
Validates(rec) ==
    /\ \A k \in RequiredFields : rec.value.json[k] # <<>>
    /\ rec.value.json.created_at[1] = "iso" /\ rec.value.json.expires_at[1] = "iso"
Unexpired(rec) ==
    /\ rec.expire_at = <<>> \/ now <= rec.expire_at[1]
    /\ now <= rec.value.json.expires_at[2]
Usable(store, s) == s \in DOMAIN store /\ Validates(store[s]) /\ Unexpired(store[s])

\* The payload is the user and the times of the stored record.
PayloadOf(payload, rec) ==
    /\ \A k \in RequiredFields \cup {"picture"} : payload[k] = rec.value.json[k]
    /\ payload.created_at[2] = rec.value.json.created_at[2]
    /\ payload.expires_at[2] = rec.value.json.expires_at[2]

\* All records but that of s are the same in both stores.
SameBut(before, after, s) ==
    /\ DOMAIN after \ {s} = DOMAIN before \ {s}
    /\ \A t \in DOMAIN before \ {s} : after[t] = before[t]

\* C13: get_session(s) returns a payload only if a record of s exists,
\* validates and has not expired, and then returns that record's data and
\* leaves the store alone; otherwise it returns None and no record of s is
\* left (one that was corrupt or expired is deleted, no other is touched).
\* A record once gone never comes back: no later get_session(s) finds it. A
\* session created to live 0 days is absent on the first get.
C13_GetOnlyLiveSessions ==
    /\ [][\A r \in Reqs : Returned(r, "get_session") =>
            LET s == req'[r].session[1]
            IN  /\ req'[r].payload # <<>> <=> Usable(StoreBefore, s)
                /\ req'[r].payload # <<>> =>
                      /\ PayloadOf(req'[r].payload[1], StoreBefore[s])
                      /\ StoreAfter = StoreBefore
                /\ req'[r].payload = <<>> =>
                      /\ s \notin DOMAIN StoreAfter
                      /\ SameBut(StoreBefore, StoreAfter, s)
                /\ ( /\ s \in DOMAIN StoreBefore
                     /\ StoreBefore[s].value.json.expires_at[2]
                            = StoreBefore[s].value.json.created_at[2] )
                      => req'[r].payload = <<>>]_vars
    /\ [][\A s \in DOMAIN issued :
            /\ s \notin DOMAIN sessions => s \notin DOMAIN sessions'
            /\ s \notin DOMAIN session_service.memory_store
                  => s \notin DOMAIN session_service'.memory_store]_vars

\* C13, its case: a session was created to live 0 days and the first
\* get_session of it, the next call, returned None and left no record of it.
C13_Witness ==
    /\ req[1].ep = "create_session" /\ req[1].status = 200 /\ req[1].count = 0
    /\ req[2].ep = "get_session" /\ req[2].status = 200
    /\ req[2].session = req[1].session /\ req[2].payload = <<>>
    /\ ticks = 2 /\ now = 2
    /\ req[2].session[1] \notin DOMAIN sessions
    /\ req[2].session[1] \in DOMAIN issued

\* Slot r shows a call of the method that has just been made, whether it
\* returned or raised.
Called(r, method) == req'[r] # req[r] /\ req'[r].ep = method

ServiceMethods == {"create_session", "get_session", "delete_session", "refresh_session"}

\* C14: refresh_session(s, ttl) returns true exactly when a record of s
\* exists that validates and has not expired, and then the record carries
\* the same user with an expires_at of ttl days from now; in every other case
\* it returns false and no record is created or changed (at most the dead
\* record of s is dropped). Calls cut short by a Redis that stopped
\* answering are left aside.
C14_RefreshExtendsLiveSessions ==
    [][\A r \in Reqs :
          (Called(r, "refresh_session") /\ req'[r].detail # "ConnectionError") =>
            LET s == req'[r].session[1]
                ok == req'[r].status = 200 /\ req'[r].result
            IN  /\ req'[r].status = 200
                /\ ok <=> Usable(StoreBefore, s)
                /\ ok => /\ s \in DOMAIN StoreAfter
                         /\ SameBut(StoreBefore, StoreAfter, s)
                         /\ \A k \in RequiredFields \cup {"picture"} :
                               StoreAfter[s].value.json[k] = StoreBefore[s].value.json[k]
                         /\ StoreAfter[s].value.json.expires_at[2]
                               = now + timedelta(req'[r].count)
                /\ ~ok => /\ SameBut(StoreBefore, StoreAfter, s)
                          /\ s \in DOMAIN StoreAfter =>
                                (s \in DOMAIN StoreBefore /\ StoreAfter[s] = StoreBefore[s])]_vars

\* C15: no operation of the session service raises because Redis does not
\* answer, be it from the first access or after earlier operations went
\* through: the service then works on its memory store, where a lookup finds
\* only what that store holds.
C15_NeverRaisesForRedis ==
    [][\A r \in Reqs : \A method \in ServiceMethods :
          (Called(r, method) /\ ~redis_up) =>
              /\ req'[r].detail # "ConnectionError"
              /\ req'[r].status = 200 => ~session_service'.use_redis
              /\ sessions' = sessions
              /\ (method = "get_session" /\ req'[r].payload # <<>>)
                    => Usable(session_service.memory_store, req'[r].session[1])]_vars

\* The payload carries the user of user_data.
PayloadFor(payload, user_data) ==
    \A k \in RequiredFields \cup {"picture"} : payload[k] = user_data[k]

\* C16: create_session with a user payload that lacks one of id,
\* provider_id, email, name and provider fails with a validation error and
\* leaves both stores as they were; a payload that has them, with or without
\* picture, is accepted: the call returns a session id that named no record
\* before and stores under it, touching no other record, the user's data
\* with an expiry of the lifetime asked for; and get_session of an id that
\* create_session returned, as long as its record is there and its
\* expires_at has not passed, returns the payload of the user it was created
\* for. Calls cut short by a Redis that stopped answering are left aside.
C16_CreateValidates ==
    /\ [][\A r \in Reqs :
        (Called(r, "create_session") /\ req'[r].detail # "ConnectionError") =>
          LET s == req'[r].session[1]
              user_data == req'[r].user_data[1]
          IN    /\ (\E k \in RequiredFields : user_data[k] = <<>>) =>
                      /\ req'[r].status = 500 /\ req'[r].detail = "ValidationError"
                      /\ sessions' = sessions
                      /\ session_service'.memory_store = session_service.memory_store
                /\ (\A k \in RequiredFields : user_data[k] # <<>>) =>
                      /\ req'[r].status = 200
                      /\ s \notin DOMAIN sessions /\ s \notin DOMAIN session_service.memory_store
                      /\ s \in DOMAIN StoreAfter
                      /\ SameBut(StoreBefore, StoreAfter, s)
                      /\ Validates(StoreAfter[s])
                      /\ PayloadFor(StoreAfter[s].value.json, user_data)
                      /\ StoreAfter[s].value.json.expires_at[2]
                            = now + timedelta(req'[r].count)
                      /\ \/ StoreAfter[s].expire_at = <<>>
                         \/ StoreAfter[s].expire_at[1] = now + timedelta(req'[r].count)]_vars
    /\ [][\A r \in Reqs :
            (Returned(r, "get_session") /\ req'[r].session[1] \in DOMAIN issued) =>
              LET s == req'[r].session[1]
              IN  /\ (s \in DOMAIN StoreBefore /\ Validates(StoreBefore[s])
                          /\ now <= StoreBefore[s].value.json.expires_at[2])
                        => req'[r].payload # <<>>
                  /\ req'[r].payload # <<>> =>
                        /\ PayloadOf(req'[r].payload[1], StoreBefore[s])
                        /\ req'[r].payload[1].id = <<issued[s]>>]_vars

\* C16, its case: a session was created from a payload without picture and
\* the get_session that followed returned that payload.
C16_Witness ==
    /\ req[1].ep = "create_session" /\ req[1].status = 200
    /\ req[1].user_data[1].picture = <<>>
    /\ req[2].ep = "get_session" /\ req[2].status = 200
    /\ req[2].session = req[1].session
    /\ req[2].payload # <<>>
    /\ PayloadFor(req[2].payload[1], req[1].user_data[1])
    /\ ticks = 2

\* A record of s is in the store the call works on: a Redis key whose time
\* to live has passed is no record.
RecordExists(s) ==
    IF session_service'.use_redis
    THEN s \in DOMAIN sessions /\ ~Expired(sessions[s])
    ELSE s \in DOMAIN session_service.memory_store

\* C17: delete_session(s) returns true exactly when a record of s existed;
\* afterwards no record of s is left, so that deleting again returns false
\* and changes nothing, and no record of another session is removed or
\* changed. A request that presents a session id is authenticated only if
\* a live record of it is stored, as the user the session was created for:
\* not after the session was deleted.
C17_DeleteOnlyThatSession ==
    /\ [][\A r \in Reqs : Returned(r, "delete_session") =>
            LET s == req'[r].session[1]
            IN  /\ req'[r].result <=> RecordExists(s)
                /\ s \notin DOMAIN StoreAfter
                /\ SameBut(StoreBefore, StoreAfter, s)
                /\ ~req'[r].result => \A t \in DOMAIN StoreAfter : t \in DOMAIN StoreBefore]_vars
    /\ [][\A r \in Reqs : Returned(r, "get_authenticated_user_id") =>
            LET s == req'[r].session[1]
            IN  /\ req'[r].result <=> Usable(StoreBefore, s)
                /\ req'[r].result => req'[r].user_id = issued[s]
                /\ ~req'[r].result => req'[r].user_id = None]_vars

\* C17, its case: of two stored sessions one was deleted, the call returning
\* true; the other is still stored, and the request that presented the
\* deleted id next was not authenticated.
C17_Witness ==
    /\ req[1].ep = "delete_session" /\ req[1].status = 200 /\ req[1].result
    /\ req[2].ep = "get_authenticated_user_id" /\ req[2].status = 200
    /\ req[2].session = req[1].session /\ ~req[2].result
    /\ \E s \in DOMAIN sessions : s # req[1].session[1] /\ Usable(sessions, s)
    /\ ticks = 4 /\ now = 4

-----------------------------------------------------------------------------
(* Properties of identity resolution, checked under Spec and SpecIdentity *)

\* The store the service reads: Redis, or its memory store after the fallback.
SessionStore == IF session_service.use_redis THEN sessions ELSE session_service.memory_store

\* The session cookie names a stored session that has not expired.
LiveSession(session_cookie) ==
    /\ session_cookie # <<>>
    /\ session_cookie[1] \in DOMAIN SessionStore
    /\ ~Expired(SessionStore[session_cookie[1]])
    /\ model_validate_json(SessionStore[session_cookie[1]].value) # <<>>
    /\ ~(now > SessionStore[session_cookie[1]].value.json.expires_at[2])

ConversationEndpoints == {"get_conversations", "get_chat", "post_chat"}

\* Request r arrives at one of the endpoints eps.
Arrives(r, eps) == req[r].ep = "idle" /\ req'[r].ep \in eps

\* C6: a migrate request that arrives without a live session is answered 401
\* and changes no conversation; the rows a migrate request rewrites go to the
\* user its session was issued to.
C6_MigrateNeedsSession ==
    [][\A r \in Reqs :
          /\ (Arrives(r, {"migrate"}) /\ ~LiveSession(req'[r].session))
                => /\ req'[r].pc = "done" /\ req'[r].status = 401
                   /\ conversations' = conversations
          /\ (req[r].ep = "migrate" /\ req[r].pc = "transfer" /\ req'[r].pc = "done")
                => /\ req[r].session # <<>>
                   /\ \A d \in conversations' \ conversations :
                         d.user_id = issued[req[r].session[1]]]_vars

\* C6, its case: a migrate request with the cookie of a session that is gone,
\* naming an anonymous user who owns a conversation, has been refused.
C6_Witness ==
    \E r \in Reqs :
        /\ req[r].ep = "migrate" /\ req[r].status = 401
        /\ req[r].session # <<>>
        /\ \E c \in conversations : c.user_id = req[r].anon

\* C7: a request to a conversation endpoint with a live session and an
\* anonymous cookie resolves to the session's user, not anonymous, and no
\* anonymous cookie is set on a request resolved to a session's user.
C7_SessionWins ==
    /\ [][\A r \in Reqs :
            ( /\ Arrives(r, ConversationEndpoints)
              /\ LiveSession(req'[r].session)
              /\ req'[r].anon # Null )
            => /\ req'[r].user_id = SessionStore[req'[r].session[1]].value.json.id[1]
               /\ ~req'[r].is_anonymous
               /\ req'[r].injected = Null]_vars
    /\ [](\A r \in Reqs :
            (req[r].ep \in ConversationEndpoints /\ ~req[r].is_anonymous)
                => req[r].injected = Null /\ req[r].cookie = Null)

\* C7, its case: a request with a live session and an anonymous cookie has
\* been answered.
C7_Witness ==
    \E r \in Reqs :
        /\ req[r].ep \in ConversationEndpoints /\ req[r].pc = "done"
        /\ req[r].status = 200
        /\ req[r].anon # Null /\ req[r].user_id \in AuthIds /\ ~req[r].is_anonymous
        /\ req[r].cookie = Null

\* C8: an anonymous id is minted only for a request without an anonymous
\* cookie, and every answer of a conversation endpoint to a request resolved
\* as anonymous carries the anonymous cookie with the resolved id.
C8_AnonymousCookieEchoed ==
    \A r \in Reqs :
        (req[r].ep \in ConversationEndpoints /\ req[r].is_anonymous) =>
            /\ req[r].minted => req[r].anon = Null
            /\ (req[r].pc = "done" /\ req[r].status \in {200, 404})
                  => req[r].cookie = req[r].user_id

\* C9: two requests that have called ensure_anonymous_user_exists(id, True)
\* with the same id have both returned from it and there is exactly one user
\* row with that id; a request resolved to a session's user adds no row.
C9_EnsureIdempotent ==
    /\ \A r1 \in Reqs, r2 \in Reqs :
          ( /\ r1 # r2
            /\ req[r1].ep \in ConversationEndpoints /\ req[r2].ep \in ConversationEndpoints
            /\ req[r1].is_anonymous /\ req[r2].is_anonymous
            /\ req[r1].user_id = req[r2].user_id
            /\ req[r1].pc \notin {"select_user", "insert_user"}
            /\ req[r2].pc \notin {"select_user", "insert_user"} )
          => /\ req[r1].status # 500 /\ req[r2].status # 500
             /\ Cardinality({u \in users : u.id = req[r1].user_id}) = 1
    /\ \A r \in Reqs :
          (req[r].ep \in ConversationEndpoints /\ ~req[r].is_anonymous)
              => req[r].pc \notin {"select_user", "insert_user"}

\* C28: ensure_anonymous_user_exists succeeds for every anonymous id that has
\* no user row yet, also when the username derived from the id is that of
\* an existing user: the INSERT of get_or_create_user for such an id raises
\* nothing and leaves a row of the id with the derived username.
C28_EnsureSucceedsForEveryNewId ==
    [][\A r \in Reqs :
          ( /\ req[r].pc = "insert_user" /\ req'[r] # req[r]
            /\ req[r].user_id \notin UserIdsIn(users) )
          => /\ req'[r].status # 500
             /\ \E u \in users' :
                   u.id = req[r].user_id /\ u.username = AnonymousUsername(req[r].user_id)]_vars

-----------------------------------------------------------------------------
(* Properties of the carried cookie, checked under SpecCarried *)

\* The users who logged in with a provider.
ProviderUsers == {u.id : u \in {x \in users : x.provider_id # Null}}

\* The request on slot r came without a live session.
Unauthenticated(r) ==
    req[r].ep \in {"get_conversations", "get_chat", "post_chat"} /\ req[r].is_anonymous

\* C29: a request without a live session never resolves to the user id of a
\* provider user, whatever its anonymous_user_id cookie carries: it is never
\* handled under such an id, and it never lists, reads or appends to a
\* conversation of a provider user.
C29_UnauthenticatedIsNoProviderUser ==
    \A r \in Reqs : Unauthenticated(r) =>
        /\ req[r].user_id \notin ProviderUsers
        /\ \A c \in conversations : c.user_id \in ProviderUsers =>
              /\ \A i \in 1..Len(req[r].listing) : req[r].listing[i].id # c.id
              /\ req[r].conv = c.id => ~req[r].did_read /\ ~req[r].did_append

\* C30: POST /chat/migrate-conversations gives the caller only conversations
\* of an anonymous identity: no step of a migration changes the owner of a
\* conversation that a provider user owns.
C30_MigrateTakesOnlyAnonymousConversations ==
    [][\A r \in Reqs : req[r].ep = "migrate" =>
          \A c \in conversations : c.user_id \in ProviderUsers =>
              \E d \in conversations' : d.id = c.id /\ d.user_id = c.user_id]_vars

====
